---- MODULE Spec2Model ----
(***************************************************************************)
(* memedsn: lexer (src/src/lexer.rs), keyword table (src/src/token.rs) and *)
(* recursive-descent parser (src/src/parser.rs) of the Specctra DSN format. *)
(*                                                                         *)
(* A Rust String / &str is modelled as a sequence of one-character         *)
(* strings, so that scanning, lower-casing, regex matching and splitting   *)
(* are computed character by character as the code computes them.          *)
(* Cursors (idx) are 0-based as in the source; Seq indices are 1-based.     *)
(***************************************************************************)
EXTENDS Integers, Sequences, FiniteSets, TLC

VARIABLES
    input,        \* the &str handed to Lexer::new
    lexer,        \* struct Lexer (lexer.rs:10-17)
    lex_pc,       \* position of the lexing run: "new", "lex", "done", "err"
    lex_result,   \* what the caller of Lexer::new(..)?.lex() holds
    parser,       \* struct Parser (parser.rs:18-22)
    parse_pc,     \* position of the parsing run: "pcb", "while", "done", "err"
    parse_result  \* what the caller of Parser::new(..).parse() holds

lexVars == <<input, lexer, lex_pc, lex_result>>

parseVars == <<parser, parse_pc, parse_result>>

vars == <<input, lexer, lex_pc, lex_result, parser, parse_pc, parse_result>>

(***************************************************************************)
(* Bounds of the model.                                                    *)
(***************************************************************************)
\* Longest input text after its prologue, counted in pieces of InputPieces.
MaxLen == 4

\* Most sections between "( pcb x" and the end of a token sequence.
MaxSections == 3

(***************************************************************************)
(* token.rs: enum Tok and its strum FromStr (snake_case, "(" and ")").     *)
(***************************************************************************)
FromStrTable ==
    {
       <<<<"a","r","e","a">>, "Area">>,
       <<<<"a","t","t","a","c","h">>, "Attach">>,
       <<<<"b","a","c","k">>, "Back">>,
       <<<<"b","o","t","h">>, "Both">>,
       <<<<"b","o","u","n","d","a","r","y">>, "Boundary">>,
       <<<<"c","i","r","c","l","e">>, "Circle">>,
       <<<<"c","i","r","c","u","i","t">>, "Circuit">>,
       <<<<"c","l","a","s","s">>, "Class">>,
       <<<<"c","l","e","a","r","a","n","c","e">>, "Clearance">>,
       <<<<"c","m">>, "Cm">>,
       <<<<"c","o","m","p","o","n","e","n","t">>, "Component">>,
       <<<<"c","o","n","n","e","c","t">>, "Connect">>,
       <<<<"d","e","f","a","u","l","t","_","s","m","d">>, "DefaultSmd">>,
       <<<<"f","r","o","n","t">>, "Front">>,
       <<<<"g","a","t","e">>, "Gate">>,
       <<<<"i","m","a","g","e">>, "Image">>,
       <<<<"i","n","c","h">>, "Inch">>,
       <<<<"j","u","m","p","e","r">>, "Jumper">>,
       <<<<"k","e","e","p","o","u","t">>, "Keepout">>,
       <<<<"l","a","y","e","r">>, "Layer">>,
       <<<<"l","i","b","r","a","r","y">>, "Library">>,
       <<<<"l","i","t","e","r","a","l">>, "Literal">>,
       <<<<"l","o","c","k","_","t","y","p","e">>, "LockType">>,
       <<<<"(">>, "Lparen">>,
       <<<<"m","i","l">>, "Mil">>,
       <<<<"m","i","x","e","d">>, "Mixed">>,
       <<<<"m","m">>, "Mm">>,
       <<<<"n","e","t">>, "Net">>,
       <<<<"n","e","t","w","o","r","k">>, "Network">>,
       <<<<"o","f","f">>, "Off">>,
       <<<<"o","n">>, "On">>,
       <<<<"o","u","t","l","i","n","e">>, "Outline">>,
       <<<<"p","a","d","s","t","a","c","k">>, "Padstack">>,
       <<<<"p","a","r","s","e","r">>, "Parser">>,
       <<<<"p","a","t","h">>, "Path">>,
       <<<<"p","c","b">>, "Pcb">>,
       <<<<"p","i","n">>, "Pin">>,
       <<<<"p","i","n","s">>, "Pins">>,
       <<<<"p","l","a","c","e">>, "Place">>,
       <<<<"p","l","a","c","e","m","e","n","t">>, "Placement">>,
       <<<<"p","l","a","n","e">>, "Plane">>,
       <<<<"p","n">>, "Pn">>,
       <<<<"p","o","l","y","g","o","n">>, "Polygon">>,
       <<<<"p","o","s","i","t","i","o","n">>, "Position">>,
       <<<<"p","o","w","e","r">>, "Power">>,
       <<<<"p","r","o","p","e","r","t","y">>, "Property">>,
       <<<<"q","a","r","c">>, "Qarc">>,
       <<<<"r","e","c","t">>, "Rect">>,
       <<<<"r","e","d","u","c","e","d">>, "Reduced">>,
       <<<<"r","e","s","o","l","u","t","i","o","n">>, "Resolution">>,
       <<<<"r","o","t","a","t","e">>, "Rotate">>,
       <<<<")">>, "Rparen">>,
       <<<<"r","u","l","e">>, "Rule">>,
       <<<<"s","h","a","p","e">>, "Shape">>,
       <<<<"s","i","g","n","a","l">>, "Signal">>,
       <<<<"s","m","d">>, "Smd">>,
       <<<<"s","m","d","_","s","m","d">>, "SmdSmd">>,
       <<<<"s","t","r","u","c","t","u","r","e">>, "Structure">>,
       <<<<"t","e","s","t","p","o","i","n","t">>, "Testpoint">>,
       <<<<"t","y","p","e">>, "Type">>,
       <<<<"u","m">>, "Um">>,
       <<<<"u","n","i","t">>, "Unit">>,
       <<<<"u","s","e","_","v","i","a">>, "UseVia">>,
       <<<<"v","i","a","_","k","e","e","p","o","u","t">>, "ViaKeepout">>,
       <<<<"v","i","a">>, "Via">>,
       <<<<"w","i","d","t","h">>, "Width">>,
       <<<<"w","i","n","d","o","w">>, "Window">>,
       <<<<"w","i","r","e","_","k","e","e","p","o","u","t">>, "WireKeepout">>,
       <<<<"w","i","r","e">>, "Wire">>,
       <<<<"w","i","r","i","n","g">>, "Wiring">>
    }

Tok == {p[2] : p \in FromStrTable}

\* Result<Tok>: Tok::from_str is case-sensitive, exact match on the spelling.
Tok_from_str(s) ==
    IF \E p \in FromStrTable : p[1] = s
    THEN [ok |-> TRUE, tok |-> (CHOOSE p \in FromStrTable : p[1] = s)[2]]
    ELSE [ok |-> FALSE, tok |-> "Literal"]

(***************************************************************************)
(* Character classes and std string helpers used by the lexer.             *)
(***************************************************************************)
\* char::is_whitespace, regex \s (restricted to the characters of the model).
WhiteSpace == {" ", "\t", "\n", "\r"}

is_whitespace(c) == c \in WhiteSpace

LowerMap ==
    ("A" :> "a") @@ ("B" :> "b") @@ ("C" :> "c") @@ ("D" :> "d") @@ ("E" :> "e") @@ ("F" :> "f") @@
    ("G" :> "g") @@ ("H" :> "h") @@ ("I" :> "i") @@ ("J" :> "j") @@ ("K" :> "k") @@ ("L" :> "l") @@
    ("M" :> "m") @@ ("N" :> "n") @@ ("O" :> "o") @@ ("P" :> "p") @@ ("Q" :> "q") @@ ("R" :> "r") @@
    ("S" :> "s") @@ ("T" :> "t") @@ ("U" :> "u") @@ ("V" :> "v") @@ ("W" :> "w") @@ ("X" :> "x") @@
    ("Y" :> "y") @@ ("Z" :> "z")

\* char lower-casing (ASCII letters; every other character of the model
\* alphabet is its own lower case).
to_lowercase_char(c) == IF c \in DOMAIN LowerMap THEN LowerMap[c] ELSE c

\* str::to_lowercase
to_lowercase(s) == [i \in 1..Len(s) |-> to_lowercase_char(s[i])]

\* Option<char>
None == <<>>
Some(c) == <<c>>

(***************************************************************************)
(* The two regular expressions of Lexer::new, as sequences of atoms, and a *)
(* backtracking matcher with the regex crate's leftmost-first preference   *)
(* (greedy repetition first).  Flags (?is): case-insensitive, and "."      *)
(* matches every character including newline.                              *)
(***************************************************************************)
Lit(s) == <<[k |-> "lit", c |-> s]>>
WsStar == <<[k |-> "ws*", c |-> <<>>]>>
WsPlus == <<[k |-> "ws", c |-> <<>>], [k |-> "ws*", c |-> <<>>]>>
AnyCap == <<[k |-> "cap", c |-> <<>>]>>

\* r"(?is)\(\s*string_quote\s+(.)\s*\)"
string_quote_rx ==
    Lit(<<"(">>) \o WsStar \o Lit(<<"s","t","r","i","n","g","_","q","u","o","t","e">>)
    \o WsPlus \o AnyCap \o WsStar \o Lit(<<")">>)

\* r"(?is)\(\s*space_in_quoted_tokens\s+off\s*\)"
spaces_in_quotes_rx ==
    Lit(<<"(">>) \o WsStar \o Lit(
        <<"s","p","a","c","e","_","i","n","_","q","u","o","t","e","d","_","t","o","k","e","n","s">>)
    \o WsPlus \o Lit(<<"o","f","f">>) \o WsStar \o Lit(<<")">>)

NoMatch == [ok |-> FALSE, end |-> 0, cap |-> <<>>]

\* Match atoms r.. of rx against s starting at 0-based offset i; end is the
\* offset one past the match, cap the text of capture group 1.
RECURSIVE RxMatchAt(_, _, _, _)
RxMatchAt(rx, r, s, i) ==
    IF r > Len(rx) THEN [ok |-> TRUE, end |-> i, cap |-> <<>>]
    ELSE LET a == rx[r] IN
      CASE a.k = "lit" ->
             IF /\ i + Len(a.c) <= Len(s)
                /\ to_lowercase(SubSeq(s, i + 1, i + Len(a.c))) = to_lowercase(a.c)
             THEN RxMatchAt(rx, r + 1, s, i + Len(a.c)) ELSE NoMatch
        [] a.k = "ws" ->
             IF i < Len(s) /\ is_whitespace(s[i + 1])
             THEN RxMatchAt(rx, r + 1, s, i + 1) ELSE NoMatch
        [] a.k = "cap" ->
             IF i < Len(s)
             THEN LET m == RxMatchAt(rx, r + 1, s, i + 1)
                  IN IF m.ok THEN [m EXCEPT !.cap = <<s[i + 1]>>] ELSE NoMatch
             ELSE NoMatch
        [] a.k = "ws*" ->
             IF i < Len(s) /\ is_whitespace(s[i + 1])
             THEN LET m == RxMatchAt(rx, r, s, i + 1)
                  IN IF m.ok THEN m ELSE RxMatchAt(rx, r + 1, s, i)
             ELSE RxMatchAt(rx, r + 1, s, i)

\* Leftmost match starting at or after offset i, with its start offset.  Both
\* patterns begin with a literal character, so a match can only start where
\* that character stands.
RxFind(rx, s, i) ==
    LET first == to_lowercase_char(rx[1].c[1])
        cands == {j \in i..(Len(s) - 1) : to_lowercase_char(s[j + 1]) = first}
        starts == {j \in cands : RxMatchAt(rx, 1, s, j).ok}
    IN IF starts = {} THEN [ok |-> FALSE, start |-> 0, end |-> 0, cap |-> <<>>]
       ELSE LET j == CHOOSE j \in starts : \A k \in starts : j <= k
                m == RxMatchAt(rx, 1, s, j)
            IN [ok |-> TRUE, start |-> j, end |-> m.end, cap |-> m.cap]

\* Mutation of captures: the pattern is only tried at the start of the text.
captures_Anchored(rx, s) ==
    LET m == RxMatchAt(rx, 1, s, 0)
    IN [ok |-> m.ok, start |-> 0, end |-> m.end, cap |-> m.cap]

\* Regex::captures
captures(rx, s) == RxFind(rx, s, 0)

\* Regex::is_match
is_match(rx, s) == RxFind(rx, s, 0).ok

\* Regex::replace_all(s, ""): every non-overlapping match, left to right, in
\* one pass over the original text.
RECURSIVE ReplaceFrom(_, _, _)
ReplaceFrom(rx, s, i) ==
    LET m == RxFind(rx, s, i)
    IN IF m.ok THEN SubSeq(s, i + 1, m.start) \o ReplaceFrom(rx, s, m.end)
       ELSE SubSeq(s, i + 1, Len(s))

replace_all(rx, s) == ReplaceFrom(rx, s, 0)

(***************************************************************************)
(* lexer.rs: struct Lexer and its methods.                                 *)
(***************************************************************************)
QuoteChars == {"'", "\"", "$"}

Token(tok, s) == [tok |-> tok, s |-> s]

\* Lexer::new: Result<Lexer>
Lexer_new(data) ==
    LET cap == captures(string_quote_rx, data)
        quote == cap.cap[1]
        \* let data = string_quote_rx.replace_all(data, "");
        \* let data = spaces_in_quotes_rx.replace_all(&data, "");
        stripped == CHOOSE d2 \in {replace_all(spaces_in_quotes_rx, d1) :
                                    d1 \in {replace_all(string_quote_rx, data)}} : TRUE
    IN IF cap.ok /\ quote \notin QuoteChars
       THEN [ok |-> FALSE, err |-> "unknown string quote character"]
       ELSE [ok |-> TRUE,
             v |-> [data |-> stripped,
                    token |-> <<>>,
                    tokens |-> <<>>,
                    idx |-> 0,
                    string_quote |-> IF cap.ok THEN Some(quote) ELSE None,
                    spaces_in_quotes |-> ~is_match(spaces_in_quotes_rx, data)]]

\* Lexer::peek: Option<char>
Lexer_peek(l) == IF l.idx < Len(l.data) THEN Some(l.data[l.idx + 1]) ELSE None

\* Lexer::next: Result<char>, with the lexer after the call
Lexer_next(l) ==
    IF l.idx < Len(l.data)
    THEN [ok |-> TRUE, c |-> l.data[l.idx + 1], l |-> [l EXCEPT !.idx = @ + 1]]
    ELSE [ok |-> FALSE, c |-> "", l |-> l]

\* Mutation of push_token: the keyword lookup sees the text as written.
push_token_CaseSensitive(l) ==
    IF l.token # <<>>
    THEN LET r == Tok_from_str(l.token)
         IN [l EXCEPT !.tokens = Append(@, Token(IF r.ok THEN r.tok ELSE "Literal",
                                                 l.token)),
                      !.token = <<>>]
    ELSE l

\* Mutation of push_token: the buffer is pushed even when it is empty.
push_token_Unconditional(l) ==
    LET r == Tok_from_str(to_lowercase(l.token))
    IN [l EXCEPT !.tokens = Append(@, Token(IF r.ok THEN r.tok ELSE "Literal",
                                            l.token)),
                 !.token = <<>>]

\* Lexer::push_token
push_token(l) ==
    IF l.token # <<>>
    THEN LET r == Tok_from_str(to_lowercase(l.token))
         IN [l EXCEPT !.tokens = Append(@, Token(IF r.ok THEN r.tok ELSE "Literal",
                                                 l.token)),
                      !.token = <<>>]
    ELSE l

\* Mutation of push_literal: the quoted text goes through the keyword lookup.
push_literal_Lookup(l) ==
    LET r == Tok_from_str(to_lowercase(l.token))
    IN [l EXCEPT !.tokens = Append(@, Token(IF r.ok THEN r.tok ELSE "Literal",
                                            l.token)),
                 !.token = <<>>]

\* Lexer::push_literal
push_literal(l) ==
    [l EXCEPT !.tokens = Append(@, Token("Literal", l.token)), !.token = <<>>]

\* Mutation of the inner while: end of input closes the run.
RECURSIVE QuotedRun_EofCloses(_, _)
QuotedRun_EofCloses(l, c) ==
    IF Lexer_peek(l) = None \/ Lexer_peek(l) = Some(c) THEN [ok |-> TRUE, l |-> l]
    ELSE LET n == Lexer_next(l)
         IN QuotedRun_EofCloses([n.l EXCEPT !.token = Append(@, n.c)], c)

\* The inner while of Lexer::lex (lexer.rs:57-60): copy characters into the
\* token buffer until the next occurrence of c; end of input is an error.
RECURSIVE QuotedRun(_, _)
QuotedRun(l, c) ==
    IF Lexer_peek(l) = None THEN [ok |-> FALSE, l |-> l]
    ELSE IF Lexer_peek(l) = Some(c) THEN [ok |-> TRUE, l |-> l]
    ELSE LET n == Lexer_next(l)
         IN QuotedRun([n.l EXCEPT !.token = Append(@, n.c)], c)

\* The quoted branch of one iteration of the outer while (lexer.rs:56-62),
\* entered after c has been consumed.
LexQuotedBody(l, c) ==
    LET run == QuotedRun(l, c)
    IN IF ~run.ok THEN [ok |-> FALSE, l |-> run.l]
       ELSE [ok |-> TRUE, l |-> push_literal(Lexer_next(run.l).l)]

\* Mutation of the unquoted branch: a separator does not end the token that
\* is being accumulated.
LexPlainBody_NoFlush(l, c) ==
    LET l2 == IF ~is_whitespace(c) THEN [l EXCEPT !.token = Append(@, c)] ELSE l
        l3 == IF c = "(" \/ c = ")" THEN push_token(l2) ELSE l2
    IN l3

\* The unquoted branch of one iteration (lexer.rs:64-74).
LexPlainBody(l, c) ==
    LET l1 == IF is_whitespace(c) \/ c = "(" \/ c = ")" THEN push_token(l) ELSE l
        l2 == IF ~is_whitespace(c) THEN [l1 EXCEPT !.token = Append(@, c)] ELSE l1
        l3 == IF c = "(" \/ c = ")" THEN push_token(l2) ELSE l2
    IN l3

\* Mutations of the test of lexer.rs:55: the toggle is not consulted; every
\* accepted quote glyph opens a run whatever was configured.
IsQuoteStart_IgnoresToggle(l, c) == Some(c) = l.string_quote

IsQuoteStart_AnyGlyph(l, c) == c \in QuoteChars /\ l.spaces_in_quotes

\* The test of lexer.rs:55.
IsQuoteStart(l, c) == Some(c) = l.string_quote /\ l.spaces_in_quotes

\* One iteration of the outer while of Lexer::lex.
LexIter(l) ==
    LET n == Lexer_next(l)
    IN IF IsQuoteStart(n.l, n.c) THEN LexQuotedBody(n.l, n.c)
       ELSE [ok |-> TRUE, l |-> LexPlainBody(n.l, n.c)]

\* Lexer::lex run to completion: Result<Vec<Token>>.
RECURSIVE Lexer_lex(_)
Lexer_lex(l) ==
    IF l.idx < Len(l.data)
    THEN LET r == LexIter(l)
         IN IF r.ok THEN Lexer_lex(r.l)
            ELSE [ok |-> FALSE, err |-> "unexpected EOF"]
    ELSE [ok |-> TRUE, v |-> push_token(l).tokens]

(***************************************************************************)
(* Numbers: f64::from_str and i32::from_str as Parser::number and          *)
(* Parser::integer call them.  An f64 is kept as the exact decimal         *)
(* m * 10^(-e), normalised so that equal numbers are equal records; the    *)
(* rounding of a binary float is not represented.  inf and nan are kept    *)
(* as their own kinds.                                                     *)
(***************************************************************************)
DigitVal ==
    ("0" :> 0) @@ ("1" :> 1) @@ ("2" :> 2) @@ ("3" :> 3) @@ ("4" :> 4) @@
    ("5" :> 5) @@ ("6" :> 6) @@ ("7" :> 7) @@ ("8" :> 8) @@ ("9" :> 9)

IsDigits(s) == \A i \in 1..Len(s) : s[i] \in DOMAIN DigitVal

I32Max == 2147483647

I32Min == (-I32Max) - 1

\* The checked multiply-and-add (or subtract, for a negative number) that
\* i32::from_str performs digit by digit.
RECURSIVE I32Accumulate(_, _, _)
I32Accumulate(ds, acc, neg) ==
    IF ds = <<>> THEN [ok |-> TRUE, v |-> acc]
    ELSE LET d == DigitVal[Head(ds)] IN
         IF neg
         THEN IF acc < (I32Min + d + 9) \div 10
              THEN [ok |-> FALSE, err |-> "number too small to fit in target type"]
              ELSE I32Accumulate(Tail(ds), acc * 10 - d, neg)
         ELSE IF acc > (I32Max - d) \div 10
              THEN [ok |-> FALSE, err |-> "number too large to fit in target type"]
              ELSE I32Accumulate(Tail(ds), acc * 10 + d, neg)

\* A leading "+" or "-".
HasSign(s) == s # <<>> /\ s[1] \in {"+", "-"}

\* s without its sign.
Unsigned(s) == IF HasSign(s) THEN Tail(s) ELSE s

i32_from_str(s) ==
    IF s = <<>>
    THEN [ok |-> FALSE, err |-> "cannot parse integer from empty string"]
    ELSE IF Unsigned(s) = <<>> \/ ~IsDigits(Unsigned(s))
    THEN [ok |-> FALSE, err |-> "invalid digit found in string"]
    ELSE I32Accumulate(Unsigned(s), 0, HasSign(s) /\ s[1] = "-")

RECURSIVE DigitsValue(_)
DigitsValue(ds) ==
    IF ds = <<>> THEN 0
    ELSE 10 * DigitsValue(SubSeq(ds, 1, Len(ds) - 1)) + DigitVal[ds[Len(ds)]]

RECURSIVE Pow10(_)
Pow10(n) == IF n <= 0 THEN 1 ELSE 10 * Pow10(n - 1)

\* m * 10^(-e) with no factor ten left in m; zero is 0 * 10^0.
RECURSIVE Normalise(_, _)
Normalise(m, e) ==
    IF m = 0 THEN [k |-> "fin", m |-> 0, e |-> 0]
    ELSE IF m % 10 = 0 THEN Normalise(m \div 10, e - 1)
    ELSE [k |-> "fin", m |-> m, e |-> e]

Zero == Normalise(0, 0)

\* First position of s holding a character of cs, or Len(s) + 1.
FirstOf(s, cs) ==
    IF \E i \in 1..Len(s) : s[i] \in cs
    THEN CHOOSE i \in 1..Len(s) : s[i] \in cs /\ \A j \in 1..(i - 1) : s[j] \notin cs
    ELSE Len(s) + 1

\* The decimal of integer part ip, fraction fp and exponent digits eDs.
F64Value(neg, ip, fp, hasExp, eNeg, eDs) ==
    IF \/ ~IsDigits(ip) \/ ~IsDigits(fp) \/ ip \o fp = <<>>
       \/ (hasExp /\ (eDs = <<>> \/ ~IsDigits(eDs)))
    THEN [ok |-> FALSE, err |-> "invalid float literal"]
    ELSE [ok |-> TRUE,
          v  |-> Normalise(IF neg THEN -DigitsValue(ip \o fp)
                                  ELSE DigitsValue(ip \o fp),
                           Len(fp) - (IF ~hasExp THEN 0
                                      ELSE IF eNeg THEN -DigitsValue(eDs)
                                      ELSE DigitsValue(eDs)))]

\* The mantissa split at its "." and the exponent at its sign.
F64Split(neg, mant, hasExp, expo) ==
    F64Value(neg,
             SubSeq(mant, 1, FirstOf(mant, {"."}) - 1),
             SubSeq(mant, FirstOf(mant, {"."}) + 1, Len(mant)),
             hasExp, HasSign(expo) /\ expo[1] = "-", Unsigned(expo))

\* The literal after its sign: inf, infinity, nan, or a decimal split at
\* its "e" or "E".
F64Body(neg, body) ==
    IF to_lowercase(body) \in
           {<<"i", "n", "f">>, <<"i", "n", "f", "i", "n", "i", "t", "y">>}
    THEN [ok |-> TRUE, v |-> [k |-> IF neg THEN "-inf" ELSE "inf", m |-> 0, e |-> 0]]
    ELSE IF to_lowercase(body) = <<"n", "a", "n">>
    THEN [ok |-> TRUE, v |-> [k |-> "nan", m |-> 0, e |-> 0]]
    ELSE F64Split(neg,
                  SubSeq(body, 1, FirstOf(body, {"e", "E"}) - 1),
                  FirstOf(body, {"e", "E"}) <= Len(body),
                  SubSeq(body, FirstOf(body, {"e", "E"}) + 1, Len(body)))

f64_from_str(s) == F64Body(HasSign(s) /\ s[1] = "-", Unsigned(s))

\* a <= b on finite numbers.
NumLe(a, b) ==
    LET e == IF a.e > b.e THEN a.e ELSE b.e
    IN  a.m * Pow10(e - a.e) <= b.m * Pow10(e - b.e)

NumMin(a, b) == IF NumLe(a, b) THEN a ELSE b

NumMax(a, b) == IF NumLe(a, b) THEN b ELSE a

pt(x, y) == [x |-> x, y |-> y]

\* A rectangle from its lower-left corner a and its upper-right corner b.
Rt_enclosing_Ordered(a, b) == [l |-> a.x, b |-> a.y, r |-> b.x, t |-> b.y]

\* memegeom Rt::enclosing: the least axis-aligned rectangle holding a and b.
Rt_enclosing(a, b) ==
    [l |-> NumMin(a.x, b.x), b |-> NumMin(a.y, b.y),
     r |-> NumMax(a.x, b.x), t |-> NumMax(a.y, b.y)]

(***************************************************************************)
(* The document types with their Default values.  A string is empty, a     *)
(* list is empty, a number is zero and a flag is false by default; the     *)
(* default variant of an enumeration is kept apart from every parsed one.  *)
(***************************************************************************)
EnumDefault == "Default"

Pt_default == pt(Zero, Zero)

Rt_default == [l |-> Zero, b |-> Zero, r |-> Zero, t |-> Zero]

DsnShape_default == [kind |-> EnumDefault]

DsnRect_default == [layer_id |-> <<>>, rect |-> Rt_default]

DsnCircle_default == [layer_id |-> <<>>, diameter |-> Zero, p |-> Pt_default]

DsnPolygon_default == [layer_id |-> <<>>, aperture_width |-> Zero, pts |-> <<>>]

DsnPath_default == [layer_id |-> <<>>, aperture_width |-> Zero, pts |-> <<>>]

DsnQArc_default ==
    [layer_id |-> <<>>, aperture_width |-> Zero,
     start |-> Pt_default, end |-> Pt_default, center |-> Pt_default]

DsnKeepout_default == [keepout_type |-> EnumDefault, shape |-> DsnShape_default]

DsnPin_default ==
    [padstack_id |-> <<>>, rotation |-> Zero, pin_id |-> <<>>, p |-> Pt_default]

DsnPadstackShape_default == [shape |-> DsnShape_default]

DsnPadstack_default == [padstack_id |-> <<>>, shapes |-> <<>>, attach |-> FALSE]

DsnImage_default ==
    [image_id |-> <<>>, outlines |-> <<>>, pins |-> <<>>, keepouts |-> <<>>]

DsnLibrary_default == [images |-> <<>>, padstacks |-> <<>>]

DsnClearance_default == [amount |-> Zero, types |-> <<>>]

DsnClass_default ==
    [class_id |-> <<>>, net_ids |-> <<>>, circuits |-> <<>>, rules |-> <<>>]

DsnNet_default == [net_id |-> <<>>, pins |-> <<>>]

DsnNetwork_default == [classes |-> <<>>, nets |-> <<>>]

DsnPlacementRef_default ==
    [component_id |-> <<>>, p |-> Pt_default, side |-> EnumDefault,
     rotation |-> Zero, lock_type |-> EnumDefault, part_number |-> <<>>]

DsnComponent_default == [image_id |-> <<>>, refs |-> <<>>]

DsnPlacement_default == [components |-> <<>>]

DsnResolution_default == [dimension |-> EnumDefault, amount |-> 0]

DsnLayer_default == [layer_name |-> <<>>, layer_type |-> EnumDefault]

DsnPlane_default == [kind |-> "DsnPlane"]

DsnVia_default == [kind |-> "DsnVia"]

DsnWire_default == [kind |-> "DsnWire"]

DsnStructure_default ==
    [boundaries |-> <<>>, keepouts |-> <<>>, layers |-> <<>>,
     planes |-> <<>>, rules |-> <<>>, vias |-> <<>>]

DsnWiring_default == [wires |-> <<>>, vias |-> <<>>]

DsnPcb_default ==
    [pcb_id     |-> <<>>,
     library    |-> DsnLibrary_default,
     network    |-> DsnNetwork_default,
     placement  |-> DsnPlacement_default,
     resolution |-> DsnResolution_default,
     structure  |-> DsnStructure_default,
     unit       |-> [dimension |-> EnumDefault],
     wiring     |-> DsnWiring_default]

(***************************************************************************)
(* The parser.  A parser value p is the struct Parser: toks, idx, pcb.     *)
(* A rule takes the parser and returns Result: Ok carries the parser       *)
(* after the rule and the value built, Err the error.                      *)
(***************************************************************************)
Ok(p, v) == [ok |-> TRUE, p |-> p, v |-> v]

Err(p, e) == [ok |-> FALSE, p |-> p, err |-> e]

\* The ? operator: an Err returns at once, an Ok goes on with F.
Try(r, F(_)) == IF r.ok THEN F(r) ELSE r

Parser_new(toks) == [toks |-> toks, idx |-> 0, pcb |-> DsnPcb_default]

Parser_peek(p, ahead) ==
    IF p.idx + ahead < Len(p.toks)
    THEN Ok(p, p.toks[p.idx + ahead + 1])
    ELSE Err(p, "unexpected EOF")

\* Parser::next without the increment of idx.
Parser_next_Stuck(p) ==
    IF p.idx < Len(p.toks) THEN Ok(p, p.toks[p.idx + 1])
    ELSE Err(p, "unexpected EOF")

Parser_next(p) ==
    IF p.idx < Len(p.toks)
    THEN Ok([p EXCEPT !.idx = @ + 1], p.toks[p.idx + 1])
    ELSE Err(p, "unexpected EOF")

expect(p, t) ==
    Try(Parser_next(p), LAMBDA n :
    IF n.v.tok = t THEN n ELSE Err(n.p, "unexpected token"))

\* Parser::literal taking tokens tagged Literal only.
literal_TaggedOnly(p) ==
    Try(Parser_next(p), LAMBDA n :
    IF n.v.tok = "Literal" THEN Ok(n.p, n.v.s) ELSE Err(n.p, "unexpected token"))

literal(p) == Try(Parser_next(p), LAMBDA n : Ok(n.p, n.v.s))

\* The first two lines of a rule body: expect(Tok::Lparen)?; expect(t)?.
open(p, t) == Try(expect(p, "Lparen"), LAMBDA a : expect(a.p, t))

\* match self.next()?.tok { one of toks => the variant, _ => Err(msg) }
next_of(p, toks, msg) ==
    Try(Parser_next(p), LAMBDA n :
    IF n.v.tok \in toks THEN Ok(n.p, n.v.tok) ELSE Err(n.p, msg))

RECURSIVE ignore(_)
RECURSIVE ignore_loop(_, _)
\* The loop of Parser::ignore, entered with the value of inside_expr.
ignore_loop(p, inside_expr) ==
    Try(Parser_next(p), LAMBDA t :
    IF t.v.tok = "Rparen" THEN Ok(t.p, <<>>)
    ELSE IF t.v.tok = "Lparen"
    THEN Try(ignore(t.p), LAMBDA r :
         IF ~inside_expr THEN Ok(r.p, <<>>)
         ELSE ignore_loop(r.p, inside_expr))
    ELSE ignore_loop(t.p, inside_expr))

ignore(p) ==
    Try(Parser_peek(p, 0), LAMBDA t0 : ignore_loop(p, t0.v.tok # "Lparen"))

\* A std FromStr result as the Result of a rule.
Parsed(p, f) == IF f.ok THEN Ok(p, f.v) ELSE Err(p, f.err)

number(p) == Try(literal(p), LAMBDA s : Parsed(s.p, f64_from_str(s.v)))

\* Parser::integer reading the digits before a decimal point only.
integer_Truncating(p) ==
    Try(literal(p), LAMBDA s :
    Parsed(s.p, i32_from_str(
        SubSeq(s.v, 1, Cardinality({i \in 1..Len(s.v) :
                                      \A j \in 1..i : s.v[j] # "."})))))

integer(p) == Try(literal(p), LAMBDA s : Parsed(s.p, i32_from_str(s.v)))

vertex(p) ==
    Try(number(p), LAMBDA x :
    Try(number(x.p), LAMBDA y : Ok(y.p, pt(x.v, y.v))))

dimension(p) ==
    next_of(p, {"Inch", "Mil", "Cm", "Mm", "Um"}, "unknown dimension unit")

unit(p) ==
    Try(open(p, "Unit"), LAMBDA h :
    Try(dimension(h.p), LAMBDA v :
    Try(expect(v.p, "Rparen"), LAMBDA c : Ok(c.p, v.v))))

\* Position of the first "-" of s, or 0.
LastHyphen_First(s) ==
    IF \E i \in 1..Len(s) : s[i] = "-"
    THEN CHOOSE i \in 1..Len(s) : s[i] = "-" /\ \A j \in 1..(i - 1) : s[j] # "-"
    ELSE 0

\* Position of the last "-" of s, or 0.
LastHyphen(s) ==
    IF \E i \in 1..Len(s) : s[i] = "-"
    THEN CHOOSE i \in 1..Len(s) : s[i] = "-" /\ \A j \in (i + 1)..Len(s) : s[j] # "-"
    ELSE 0

pin_ref(p) ==
    Try(literal(p), LAMBDA s :
    IF LastHyphen(s.v) = 0 THEN Err(s.p, "invalid pin reference")
    ELSE Ok(s.p, [component_id |-> SubSeq(s.v, 1, LastHyphen(s.v) - 1),
                  pin_id       |-> SubSeq(s.v, LastHyphen(s.v) + 1, Len(s.v))]))

onoff(p) ==
    Try(next_of(p, {"Off", "On"}, "expected off or on"), LAMBDA n :
    Ok(n.p, n.v = "On"))

\* Parser::side with a default for the tokens that are no side.
side_Defaulting(p) ==
    Try(Parser_next(p), LAMBDA n :
    IF n.v.tok \in {"Back", "Both", "Front"}
    THEN Ok(n.p, n.v.tok) ELSE Ok(n.p, EnumDefault))

side(p) == next_of(p, {"Back", "Both", "Front"}, "unrecognised side type")

\* while self.peek(0)?.tok != Tok::Rparen { v.push(self.vertex()?) }
RECURSIVE vertex_while(_, _)
vertex_while(p, pts) ==
    Try(Parser_peek(p, 0), LAMBDA t0 :
    IF t0.v.tok = "Rparen" THEN Ok(p, pts)
    ELSE Try(vertex(p), LAMBDA r : vertex_while(r.p, Append(pts, r.v))))

rect(p) ==
    Try(open(p, "Rect"), LAMBDA h :
    Try(literal(h.p), LAMBDA id :
    Try(vertex(id.p), LAMBDA a :
    Try(vertex(a.p), LAMBDA b :
    Try(expect(b.p, "Rparen"), LAMBDA c :
    Ok(c.p, [DsnRect_default EXCEPT !.layer_id = id.v,
                                    !.rect = Rt_enclosing(a.v, b.v)]))))))

circle(p) ==
    Try(open(p, "Circle"), LAMBDA h :
    Try(literal(h.p), LAMBDA id :
    Try(number(id.p), LAMBDA d :
    Try(Try(Parser_peek(d.p, 0), LAMBDA t0 :
            IF t0.v.tok # "Rparen" THEN vertex(d.p)
            ELSE Ok(d.p, DsnCircle_default.p)), LAMBDA q :
    Try(expect(q.p, "Rparen"), LAMBDA c :
    Ok(c.p, [DsnCircle_default EXCEPT !.layer_id = id.v,
                                      !.diameter = d.v, !.p = q.v]))))))

\* polygon with the test for three points taken for one for two.
polygon_TwoPoints(p) ==
    Try(open(p, "Polygon"), LAMBDA h :
    Try(literal(h.p), LAMBDA id :
    Try(number(id.p), LAMBDA w :
    Try(vertex_while(w.p, DsnPolygon_default.pts), LAMBDA pts :
    Try(expect(pts.p, "Rparen"), LAMBDA c :
    IF Len(pts.v) < 2
    THEN Err(c.p, "polygon must have at least three points")
    ELSE Ok(c.p, [DsnPolygon_default EXCEPT !.layer_id = id.v,
                                            !.aperture_width = w.v,
                                            !.pts = pts.v]))))))

polygon(p) ==
    Try(open(p, "Polygon"), LAMBDA h :
    Try(literal(h.p), LAMBDA id :
    Try(number(id.p), LAMBDA w :
    Try(vertex_while(w.p, DsnPolygon_default.pts), LAMBDA pts :
    Try(expect(pts.p, "Rparen"), LAMBDA c :
    IF Len(pts.v) < 3
    THEN Err(c.p, "polygon must have at least three points")
    ELSE Ok(c.p, [DsnPolygon_default EXCEPT !.layer_id = id.v,
                                            !.aperture_width = w.v,
                                            !.pts = pts.v]))))))

path(p) ==
    Try(open(p, "Path"), LAMBDA h :
    Try(literal(h.p), LAMBDA id :
    Try(number(id.p), LAMBDA w :
    Try(vertex_while(w.p, DsnPath_default.pts), LAMBDA pts :
    Try(expect(pts.p, "Rparen"), LAMBDA c :
    IF Len(pts.v) < 2
    THEN Err(c.p, "path must have at least two points")
    ELSE Ok(c.p, [DsnPath_default EXCEPT !.layer_id = id.v,
                                         !.aperture_width = w.v,
                                         !.pts = pts.v]))))))

qarc(p) ==
    Try(open(p, "Qarc"), LAMBDA h :
    Try(literal(h.p), LAMBDA id :
    Try(number(id.p), LAMBDA w :
    Try(vertex(w.p), LAMBDA s :
    Try(vertex(s.p), LAMBDA e :
    Try(vertex(e.p), LAMBDA m :
    Try(expect(m.p, "Rparen"), LAMBDA c :
    Ok(c.p, [DsnQArc_default EXCEPT !.layer_id = id.v,
                                    !.aperture_width = w.v,
                                    !.start = s.v, !.end = e.v,
                                    !.center = m.v]))))))))

\* DsnShape::X(v): the variant tag with its payload.
DsnShape(kind, r) == Try(r, LAMBDA x : Ok(x.p, [kind |-> kind, v |-> x.v]))

shape(p) ==
    Try(Parser_peek(p, 1), LAMBDA t :
    IF t.v.tok = "Circle"  THEN DsnShape("Circle", circle(p))
    ELSE IF t.v.tok = "Path"    THEN DsnShape("Path", path(p))
    ELSE IF t.v.tok = "Polygon" THEN DsnShape("Polygon", polygon(p))
    ELSE IF t.v.tok = "Qarc"    THEN DsnShape("QArc", qarc(p))
    ELSE IF t.v.tok = "Rect"    THEN DsnShape("Rect", rect(p))
    ELSE Err(p, "unrecognised shape type"))

via(p) ==
    Try(open(p, "Via"), LAMBDA h :
    Try(expect(h.p, "Rparen"), LAMBDA c : Ok(c.p, DsnVia_default)))

wire(p) ==
    Try(open(p, "Wire"), LAMBDA h :
    Try(expect(h.p, "Rparen"), LAMBDA c : Ok(c.p, DsnWire_default)))

plane(p) ==
    Try(open(p, "Plane"), LAMBDA h :
    Try(expect(h.p, "Rparen"), LAMBDA c : Ok(c.p, DsnPlane_default)))

RECURSIVE keepout_while(_, _)
keepout_while(p, v) ==
    Try(Parser_peek(p, 0), LAMBDA t0 :
    IF t0.v.tok = "Rparen" THEN Ok(p, v) ELSE
    Try(Parser_peek(p, 1), LAMBDA t :
    IF t.v.tok \in {"Rect", "Circle", "Polygon", "Path", "Qarc"}
    THEN Try(shape(p), LAMBDA r : keepout_while(r.p, [v EXCEPT !.shape = r.v]))
    ELSE Err(p, "unrecognised token")))

keepout(p) ==
    Try(expect(p, "Lparen"), LAMBDA a :
    Try(next_of(a.p, {"Keepout", "ViaKeepout", "WireKeepout"},
                "unrecognised keepout type"), LAMBDA n :
    Try(keepout_while(n.p, [DsnKeepout_default EXCEPT !.keepout_type = n.v]),
        LAMBDA body :
    Try(expect(body.p, "Rparen"), LAMBDA c : Ok(c.p, body.v)))))

pin(p) ==
    Try(open(p, "Pin"), LAMBDA h :
    Try(literal(h.p), LAMBDA ps :
    Try(Try(Parser_peek(ps.p, 0), LAMBDA t0 :
            IF t0.v.tok = "Lparen"
            THEN Try(open(ps.p, "Rotate"), LAMBDA o :
                 Try(number(o.p), LAMBDA n :
                 Try(expect(n.p, "Rparen"), LAMBDA e : Ok(e.p, n.v))))
            ELSE Ok(ps.p, DsnPin_default.rotation)), LAMBDA rot :
    Try(literal(rot.p), LAMBDA id :
    Try(vertex(id.p), LAMBDA q :
    Try(expect(q.p, "Rparen"), LAMBDA c :
    Ok(c.p, [DsnPin_default EXCEPT !.padstack_id = ps.v,
                                   !.rotation = rot.v,
                                   !.pin_id = id.v, !.p = q.v])))))))

padstack_shape(p) ==
    Try(open(p, "Shape"), LAMBDA h :
    Try(shape(h.p), LAMBDA s :
    Try(expect(s.p, "Rparen"), LAMBDA c :
    Ok(c.p, [DsnPadstackShape_default EXCEPT !.shape = s.v]))))

RECURSIVE padstack_while(_, _)
padstack_while(p, v) ==
    Try(Parser_peek(p, 0), LAMBDA t0 :
    IF t0.v.tok = "Rparen" THEN Ok(p, v) ELSE
    Try(Parser_peek(p, 1), LAMBDA t :
    IF t.v.tok = "Attach"
    THEN Try(open(p, "Attach"), LAMBDA o :
         Try(onoff(o.p), LAMBDA b :
         Try(expect(b.p, "Rparen"), LAMBDA c :
         padstack_while(c.p, [v EXCEPT !.attach = b.v]))))
    ELSE IF t.v.tok = "Shape"
    THEN Try(padstack_shape(p), LAMBDA r :
         padstack_while(r.p, [v EXCEPT !.shapes = Append(@, r.v)]))
    ELSE Err(p, "unrecognised token")))

padstack(p) ==
    Try(open(p, "Padstack"), LAMBDA h :
    Try(literal(h.p), LAMBDA id :
    Try(padstack_while(id.p, [DsnPadstack_default EXCEPT !.padstack_id = id.v]),
        LAMBDA body :
    Try(expect(body.p, "Rparen"), LAMBDA c : Ok(c.p, body.v)))))

RECURSIVE image_while(_, _)
image_while(p, v) ==
    Try(Parser_peek(p, 0), LAMBDA t0 :
    IF t0.v.tok = "Rparen" THEN Ok(p, v) ELSE
    Try(Parser_peek(p, 1), LAMBDA t :
    IF t.v.tok = "Outline"
    THEN Try(open(p, "Outline"), LAMBDA o :
         Try(shape(o.p), LAMBDA s :
         Try(expect(s.p, "Rparen"), LAMBDA c :
         image_while(c.p, [v EXCEPT !.outlines = Append(@, s.v)]))))
    ELSE IF t.v.tok = "Pin"
    THEN Try(pin(p), LAMBDA r :
         image_while(r.p, [v EXCEPT !.pins = Append(@, r.v)]))
    ELSE IF t.v.tok \in {"Keepout", "ViaKeepout", "WireKeepout"}
    THEN Try(keepout(p), LAMBDA r :
         image_while(r.p, [v EXCEPT !.keepouts = Append(@, r.v)]))
    ELSE Err(p, "unrecognised token")))

image(p) ==
    Try(open(p, "Image"), LAMBDA h :
    Try(literal(h.p), LAMBDA id :
    Try(image_while(id.p, [DsnImage_default EXCEPT !.image_id = id.v]),
        LAMBDA body :
    Try(expect(body.p, "Rparen"), LAMBDA c : Ok(c.p, body.v)))))

RECURSIVE clearance_while(_, _)
clearance_while(p, v) ==
    Try(Parser_peek(p, 0), LAMBDA t0 :
    IF t0.v.tok = "Rparen" THEN Ok(p, v) ELSE
    Try(open(p, "Type"), LAMBDA o :
    Try(next_of(o.p, {"DefaultSmd", "SmdSmd"}, "unrecognised clearance type"),
        LAMBDA n :
    Try(expect(n.p, "Rparen"), LAMBDA c :
    clearance_while(c.p, [v EXCEPT !.types = Append(@, n.v)])))))

\* Parser::clearance without the test for an empty list of types.
clearance_NoDefault(p) ==
    Try(open(p, "Clearance"), LAMBDA h :
    Try(number(h.p), LAMBDA a :
    Try(clearance_while(a.p, [DsnClearance_default EXCEPT !.amount = a.v]),
        LAMBDA body :
    Try(expect(body.p, "Rparen"), LAMBDA c : Ok(c.p, body.v)))))

clearance(p) ==
    Try(open(p, "Clearance"), LAMBDA h :
    Try(number(h.p), LAMBDA a :
    Try(clearance_while(a.p, [DsnClearance_default EXCEPT !.amount = a.v]),
        LAMBDA body :
    Try(expect(body.p, "Rparen"), LAMBDA c :
    Ok(c.p, IF body.v.types = <<>> THEN [body.v EXCEPT !.types = <<"All">>]
            ELSE body.v)))))

RECURSIVE rule_while(_, _)
rule_while(p, v) ==
    Try(Parser_peek(p, 0), LAMBDA t0 :
    IF t0.v.tok = "Rparen" THEN Ok(p, v) ELSE
    Try(Parser_peek(p, 1), LAMBDA t :
    IF t.v.tok = "Width"
    THEN Try(open(p, "Width"), LAMBDA o :
         Try(number(o.p), LAMBDA w :
         Try(expect(w.p, "Rparen"), LAMBDA c :
         rule_while(c.p, Append(v, [kind |-> "Width", v |-> w.v])))))
    ELSE IF t.v.tok = "Clearance"
    THEN Try(clearance(p), LAMBDA r :
         rule_while(r.p, Append(v, [kind |-> "Clearance", v |-> r.v])))
    ELSE Err(p, "unrecognised token")))

rule(p) ==
    Try(open(p, "Rule"), LAMBDA h :
    Try(rule_while(h.p, <<>>), LAMBDA body :
    Try(expect(body.p, "Rparen"), LAMBDA c : Ok(c.p, body.v))))

RECURSIVE circuit_while(_, _)
circuit_while(p, v) ==
    Try(Parser_peek(p, 0), LAMBDA t0 :
    IF t0.v.tok = "Rparen" THEN Ok(p, v) ELSE
    Try(Parser_peek(p, 1), LAMBDA t :
    IF t.v.tok = "UseVia"
    THEN Try(open(p, "UseVia"), LAMBDA o :
         Try(literal(o.p), LAMBDA id :
         Try(expect(id.p, "Rparen"), LAMBDA c :
         circuit_while(c.p, Append(v, [kind |-> "UseVia", v |-> id.v])))))
    ELSE Err(p, "unrecognised token")))

circuit(p) ==
    Try(open(p, "Circuit"), LAMBDA h :
    Try(circuit_while(h.p, <<>>), LAMBDA body :
    Try(expect(body.p, "Rparen"), LAMBDA c : Ok(c.p, body.v))))

RECURSIVE class_while(_, _)
class_while(p, v) ==
    Try(Parser_peek(p, 0), LAMBDA t0 :
    IF t0.v.tok = "Rparen" THEN Ok(p, v)
    ELSE IF t0.v.tok = "Lparen"
    THEN Try(Parser_peek(p, 1), LAMBDA t :
         IF t.v.tok = "Circuit"
         THEN Try(circuit(p), LAMBDA r :
              class_while(r.p, [v EXCEPT !.circuits = @ \o r.v]))
         ELSE IF t.v.tok = "Rule"
         THEN Try(rule(p), LAMBDA r :
              class_while(r.p, [v EXCEPT !.rules = @ \o r.v]))
         ELSE Err(p, "unrecognised token"))
    ELSE Try(literal(p), LAMBDA id :
         class_while(id.p, [v EXCEPT !.net_ids = Append(@, id.v)])))

class(p) ==
    Try(open(p, "Class"), LAMBDA h :
    Try(literal(h.p), LAMBDA id :
    Try(class_while(id.p, [DsnClass_default EXCEPT !.class_id = id.v]),
        LAMBDA body :
    Try(expect(body.p, "Rparen"), LAMBDA c : Ok(c.p, body.v)))))

\* while self.peek(0)?.tok != Tok::Rparen { v.pins.push(self.pin_ref()?) }
RECURSIVE pin_ref_while(_, _)
pin_ref_while(p, pins) ==
    Try(Parser_peek(p, 0), LAMBDA t0 :
    IF t0.v.tok = "Rparen" THEN Ok(p, pins)
    ELSE Try(pin_ref(p), LAMBDA r : pin_ref_while(r.p, Append(pins, r.v))))

RECURSIVE net_while(_, _)
net_while(p, v) ==
    Try(Parser_peek(p, 0), LAMBDA t0 :
    IF t0.v.tok = "Rparen" THEN Ok(p, v) ELSE
    Try(Parser_peek(p, 1), LAMBDA t :
    IF t.v.tok = "Pins"
    THEN Try(open(p, "Pins"), LAMBDA o :
         Try(pin_ref_while(o.p, v.pins), LAMBDA ps :
         Try(expect(ps.p, "Rparen"), LAMBDA c :
         net_while(c.p, [v EXCEPT !.pins = ps.v]))))
    ELSE Err(p, "unrecognised token")))

net(p) ==
    Try(open(p, "Net"), LAMBDA h :
    Try(literal(h.p), LAMBDA id :
    Try(net_while(id.p, [DsnNet_default EXCEPT !.net_id = id.v]), LAMBDA body :
    Try(expect(body.p, "Rparen"), LAMBDA c : Ok(c.p, body.v)))))

RECURSIVE placement_ref_while(_, _)
placement_ref_while(p, v) ==
    Try(Parser_peek(p, 0), LAMBDA t0 :
    IF t0.v.tok = "Rparen" THEN Ok(p, v) ELSE
    Try(Parser_peek(p, 1), LAMBDA t :
    IF t.v.tok = "LockType"
    THEN Try(open(p, "LockType"), LAMBDA o :
         Try(next_of(o.p, {"Gate", "Position"}, "unrecognised lock type"),
             LAMBDA n :
         Try(expect(n.p, "Rparen"), LAMBDA c :
         placement_ref_while(c.p, [v EXCEPT !.lock_type = n.v]))))
    ELSE IF t.v.tok = "Pn"
    THEN Try(open(p, "Pn"), LAMBDA o :
         Try(literal(o.p), LAMBDA pn :
         Try(expect(pn.p, "Rparen"), LAMBDA c :
         placement_ref_while(c.p, [v EXCEPT !.part_number = pn.v]))))
    ELSE Err(p, "unrecognised token")))

placement_ref(p) ==
    Try(open(p, "Place"), LAMBDA h :
    Try(literal(h.p), LAMBDA id :
    Try(vertex(id.p), LAMBDA q :
    Try(side(q.p), LAMBDA s :
    Try(number(s.p), LAMBDA r :
    Try(placement_ref_while(r.p,
            [DsnPlacementRef_default EXCEPT
                 !.component_id = id.v, !.p = q.v,
                 !.side = s.v, !.rotation = r.v]), LAMBDA body :
    Try(expect(body.p, "Rparen"), LAMBDA c : Ok(c.p, body.v))))))))

RECURSIVE component_while(_, _)
component_while(p, v) ==
    Try(Parser_peek(p, 0), LAMBDA t0 :
    IF t0.v.tok = "Rparen" THEN Ok(p, v) ELSE
    Try(Parser_peek(p, 1), LAMBDA t :
    IF t.v.tok = "Place"
    THEN Try(placement_ref(p), LAMBDA r :
         component_while(r.p, [v EXCEPT !.refs = Append(@, r.v)]))
    ELSE Err(p, "unrecognised token")))

component(p) ==
    Try(open(p, "Component"), LAMBDA h :
    Try(literal(h.p), LAMBDA id :
    Try(component_while(id.p, [DsnComponent_default EXCEPT !.image_id = id.v]),
        LAMBDA body :
    Try(expect(body.p, "Rparen"), LAMBDA c : Ok(c.p, body.v)))))

RECURSIVE layer_while(_, _)
layer_while(p, v) ==
    Try(Parser_peek(p, 0), LAMBDA t0 :
    IF t0.v.tok = "Rparen" THEN Ok(p, v) ELSE
    Try(Parser_peek(p, 1), LAMBDA t :
    IF t.v.tok = "Type"
    THEN Try(open(p, "Type"), LAMBDA o :
         Try(next_of(o.p, {"Jumper", "Mixed", "Power", "Signal"},
                     "unrecognised layer type"), LAMBDA n :
         Try(expect(n.p, "Rparen"), LAMBDA c :
         layer_while(c.p, [v EXCEPT !.layer_type = n.v]))))
    ELSE IF t.v.tok = "Property"
    THEN Try(ignore(p), LAMBDA r : layer_while(r.p, v))
    ELSE Err(p, "unrecognised token")))

layer(p) ==
    Try(open(p, "Layer"), LAMBDA h :
    Try(literal(h.p), LAMBDA id :
    Try(layer_while(id.p, [DsnLayer_default EXCEPT !.layer_name = id.v]),
        LAMBDA body :
    Try(expect(body.p, "Rparen"), LAMBDA c : Ok(c.p, body.v)))))

RECURSIVE library_while(_, _)
library_while(p, v) ==
    Try(Parser_peek(p, 0), LAMBDA t0 :
    IF t0.v.tok = "Rparen" THEN Ok(p, v) ELSE
    Try(Parser_peek(p, 1), LAMBDA t :
    IF t.v.tok = "Image"
    THEN Try(image(p), LAMBDA r :
         library_while(r.p, [v EXCEPT !.images = Append(@, r.v)]))
    ELSE IF t.v.tok = "Padstack"
    THEN Try(padstack(p), LAMBDA r :
         library_while(r.p, [v EXCEPT !.padstacks = Append(@, r.v)]))
    ELSE Err(p, "unrecognised token")))

library(p) ==
    Try(open(p, "Library"), LAMBDA h :
    Try(library_while(h.p, DsnLibrary_default), LAMBDA body :
    Try(expect(body.p, "Rparen"), LAMBDA c : Ok(c.p, body.v))))

RECURSIVE network_while(_, _)
network_while(p, v) ==
    Try(Parser_peek(p, 0), LAMBDA t0 :
    IF t0.v.tok = "Rparen" THEN Ok(p, v) ELSE
    Try(Parser_peek(p, 1), LAMBDA t :
    IF t.v.tok = "Class"
    THEN Try(class(p), LAMBDA r :
         network_while(r.p, [v EXCEPT !.classes = Append(@, r.v)]))
    ELSE IF t.v.tok = "Net"
    THEN Try(net(p), LAMBDA r :
         network_while(r.p, [v EXCEPT !.nets = Append(@, r.v)]))
    ELSE Err(p, "unrecognised token")))

network(p) ==
    Try(open(p, "Network"), LAMBDA h :
    Try(network_while(h.p, DsnNetwork_default), LAMBDA body :
    Try(expect(body.p, "Rparen"), LAMBDA c : Ok(c.p, body.v))))

RECURSIVE placement_while(_, _)
placement_while(p, v) ==
    Try(Parser_peek(p, 0), LAMBDA t0 :
    IF t0.v.tok = "Rparen" THEN Ok(p, v) ELSE
    Try(Parser_peek(p, 1), LAMBDA t :
    IF t.v.tok = "Component"
    THEN Try(component(p), LAMBDA r :
         placement_while(r.p, [v EXCEPT !.components = Append(@, r.v)]))
    ELSE Err(p, "unrecognised token")))

placement(p) ==
    Try(open(p, "Placement"), LAMBDA h :
    Try(placement_while(h.p, DsnPlacement_default), LAMBDA body :
    Try(expect(body.p, "Rparen"), LAMBDA c : Ok(c.p, body.v))))

resolution(p) ==
    Try(open(p, "Resolution"), LAMBDA h :
    Try(dimension(h.p), LAMBDA d :
    Try(integer(d.p), LAMBDA a :
    Try(expect(a.p, "Rparen"), LAMBDA c :
    Ok(c.p, [DsnResolution_default EXCEPT !.dimension = d.v,
                                          !.amount = a.v])))))

\* while self.peek(0)?.tok != Tok::Rparen { v.vias.push(self.literal()?) }
RECURSIVE via_name_while(_, _)
\* The loop with each name put before the names already read.
via_name_while_Prepend(p, vias) ==
    Try(Parser_peek(p, 0), LAMBDA t0 :
    IF t0.v.tok = "Rparen" THEN Ok(p, vias)
    ELSE Try(literal(p), LAMBDA r : via_name_while(r.p, <<r.v>> \o vias)))

via_name_while(p, vias) ==
    Try(Parser_peek(p, 0), LAMBDA t0 :
    IF t0.v.tok = "Rparen" THEN Ok(p, vias)
    ELSE Try(literal(p), LAMBDA r : via_name_while(r.p, Append(vias, r.v))))

RECURSIVE structure_while(_, _)
structure_while(p, v) ==
    Try(Parser_peek(p, 0), LAMBDA t0 :
    IF t0.v.tok = "Rparen" THEN Ok(p, v) ELSE
    Try(Parser_peek(p, 1), LAMBDA t :
    IF t.v.tok = "Boundary"
    THEN Try(open(p, "Boundary"), LAMBDA o :
         Try(shape(o.p), LAMBDA s :
         Try(expect(s.p, "Rparen"), LAMBDA c :
         structure_while(c.p, [v EXCEPT !.boundaries = Append(@, s.v)]))))
    ELSE IF t.v.tok \in {"Keepout", "ViaKeepout", "WireKeepout"}
    THEN Try(keepout(p), LAMBDA r :
         structure_while(r.p, [v EXCEPT !.keepouts = Append(@, r.v)]))
    ELSE IF t.v.tok = "Layer"
    THEN Try(layer(p), LAMBDA r :
         structure_while(r.p, [v EXCEPT !.layers = Append(@, r.v)]))
    ELSE IF t.v.tok = "Plane"
    THEN Try(plane(p), LAMBDA r :
         structure_while(r.p, [v EXCEPT !.planes = Append(@, r.v)]))
    ELSE IF t.v.tok = "Rule"
    THEN Try(rule(p), LAMBDA r :
         structure_while(r.p, [v EXCEPT !.rules = @ \o r.v]))
    ELSE IF t.v.tok = "Via"
    THEN Try(open(p, "Via"), LAMBDA o :
         Try(via_name_while(o.p, v.vias), LAMBDA ns :
         Try(expect(ns.p, "Rparen"), LAMBDA c :
         structure_while(c.p, [v EXCEPT !.vias = ns.v]))))
    ELSE Err(p, "unrecognised token")))

structure(p) ==
    Try(open(p, "Structure"), LAMBDA h :
    Try(structure_while(h.p, DsnStructure_default), LAMBDA body :
    Try(expect(body.p, "Rparen"), LAMBDA c : Ok(c.p, body.v))))

RECURSIVE wiring_while(_, _)
wiring_while(p, v) ==
    Try(Parser_peek(p, 0), LAMBDA t0 :
    IF t0.v.tok = "Rparen" THEN Ok(p, v) ELSE
    Try(Parser_peek(p, 1), LAMBDA t :
    IF t.v.tok = "Wire"
    THEN Try(wire(p), LAMBDA r :
         wiring_while(r.p, [v EXCEPT !.wires = Append(@, r.v)]))
    ELSE IF t.v.tok = "Via"
    THEN Try(via(p), LAMBDA r :
         wiring_while(r.p, [v EXCEPT !.vias = Append(@, r.v)]))
    ELSE Err(p, "unrecognised token")))

wiring(p) ==
    Try(open(p, "Wiring"), LAMBDA h :
    Try(wiring_while(h.p, DsnWiring_default), LAMBDA body :
    Try(expect(body.p, "Rparen"), LAMBDA c : Ok(c.p, body.v))))

\* The arm Tok::Library adding the images and padstacks to those held.
pcb_library_Merging(p) ==
    Try(library(p), LAMBDA r :
    Ok([r.p EXCEPT !.pcb.library.images = @ \o r.v.images,
                   !.pcb.library.padstacks = @ \o r.v.padstacks], <<>>))

\* The arms of the match of Parser::pcb: the rule, and the assignment of
\* what it returns to its field of self.pcb.
pcb_library(p) ==
    Try(library(p), LAMBDA r : Ok([r.p EXCEPT !.pcb.library = r.v], <<>>))

pcb_network(p) ==
    Try(network(p), LAMBDA r : Ok([r.p EXCEPT !.pcb.network = r.v], <<>>))

pcb_placement(p) ==
    Try(placement(p), LAMBDA r : Ok([r.p EXCEPT !.pcb.placement = r.v], <<>>))

pcb_resolution(p) ==
    Try(resolution(p), LAMBDA r : Ok([r.p EXCEPT !.pcb.resolution = r.v], <<>>))

pcb_structure(p) ==
    Try(structure(p), LAMBDA r : Ok([r.p EXCEPT !.pcb.structure = r.v], <<>>))

pcb_unit(p) ==
    Try(unit(p), LAMBDA r : Ok([r.p EXCEPT !.pcb.unit.dimension = r.v], <<>>))

pcb_wiring(p) ==
    Try(wiring(p), LAMBDA r : Ok([r.p EXCEPT !.pcb.wiring = r.v], <<>>))

\* One pass of the while of Parser::pcb, entered when peek(0) is not a
\* closing parenthesis: the match on peek(1).
pcb_iter(p) ==
    Try(Parser_peek(p, 1), LAMBDA t :
    IF t.v.tok = "Library" THEN pcb_library(p)
    ELSE IF t.v.tok = "Network" THEN pcb_network(p)
    ELSE IF t.v.tok = "Parser" THEN ignore(p)
    ELSE IF t.v.tok = "Placement" THEN pcb_placement(p)
    ELSE IF t.v.tok = "Resolution" THEN pcb_resolution(p)
    ELSE IF t.v.tok = "Structure" THEN pcb_structure(p)
    ELSE IF t.v.tok = "Unit" THEN pcb_unit(p)
    ELSE IF t.v.tok = "Wiring" THEN pcb_wiring(p)
    ELSE Err(p, "unrecognised token"))

\* Parser::pcb up to its while: "(", "pcb" and the document id.
\* The head of Parser::pcb without the assignment to pcb_id.
pcb_head_NoId(p) ==
    Try(open(p, "Pcb"), LAMBDA h :
    Try(literal(h.p), LAMBDA id : Ok(id.p, <<>>)))

pcb_head(p) ==
    Try(open(p, "Pcb"), LAMBDA h :
    Try(literal(h.p), LAMBDA id :
    Ok([id.p EXCEPT !.pcb.pcb_id = id.v], <<>>)))

RECURSIVE pcb_while(_)
pcb_while(p) ==
    Try(Parser_peek(p, 0), LAMBDA t0 :
    IF t0.v.tok = "Rparen" THEN Ok(p, <<>>)
    ELSE Try(pcb_iter(p), LAMBDA r : pcb_while(r.p)))

pcb(p) ==
    Try(pcb_head(p), LAMBDA h :
    Try(pcb_while(h.p), LAMBDA body : expect(body.p, "Rparen")))

\* self.pcb()?; Ok(self.pcb)
Parser_parse(p) == Try(pcb(p), LAMBDA r : Ok(r.p, r.p.pcb))

(***************************************************************************)
(* Input texts: concatenations of at most MaxLen pieces.                   *)
(***************************************************************************)
Directive(name, arg) == <<"(">> \o name \o <<" ">> \o arg \o <<")">>

StringQuoteDirective(c) ==
    Directive(<<"s","t","r","i","n","g","_","q","u","o","t","e">>, <<c>>)

SpaceOffDirective ==
    Directive(<<"s","p","a","c","e","_","i","n","_","q","u","o","t","e","d","_",
                "t","o","k","e","n","s">>, <<"o","f","f">>)

\* The pieces a text is put together from: the two parentheses, a blank, the
\* quote glyph, a keyword in mixed case ("Mm" spells Tok::Mm, "MmMm" spells no
\* keyword), a valid and an invalid quote directive and the toggle directive.
InputPieces ==
    { <<"(">>, <<")">>, <<" ">>, <<"\"">>, <<"M","m">>,
      StringQuoteDirective("\""), StringQuoteDirective("x"), SpaceOffDirective }

\* What a text starts with: nothing, or the two directives of a parser block
\* that switches space-tolerant quoting off.
Prologues ==
    { <<>>, StringQuoteDirective("\"") \o SpaceOffDirective }

RECURSIVE Concat(_)
Concat(ps) == IF ps = <<>> THEN <<>> ELSE Head(ps) \o Concat(Tail(ps))

PieceSeqs == UNION {[1..n -> InputPieces] : n \in 0..MaxLen}

InputTexts == {pro \o Concat(ps) : pro \in Prologues, ps \in PieceSeqs}

(***************************************************************************)
(* State machine of one Lexer::new(input)?.lex() call.                     *)
(***************************************************************************)
NoLexer ==
    [data |-> <<>>, token |-> <<>>, tokens |-> <<>>, idx |-> 0,
     string_quote |-> None, spaces_in_quotes |-> TRUE]

NoResult == [ok |-> FALSE, err |-> "pending"]

Init ==
    /\ input \in InputTexts
    /\ lexer = NoLexer
    /\ lex_pc = "new"
    /\ lex_result = NoResult
    /\ parser = Parser_new(<<>>)
    /\ parse_pc = "idle"
    /\ parse_result = NoResult

\* Lexer::new(input)
New ==
    /\ lex_pc = "new"
    /\ \E r \in {Lexer_new(input)} :
          IF r.ok
          THEN /\ lexer' = r.v
               /\ lex_pc' = "lex"
               /\ lex_result' = lex_result
          ELSE /\ lexer' = lexer
               /\ lex_pc' = "err"
               /\ lex_result' = r
    /\ UNCHANGED <<input, parseVars>>

\* One iteration of the while of Lexer::lex that starts a quoted run.
LexQuoted ==
    /\ lex_pc = "lex"
    /\ lexer.idx < Len(lexer.data)
    /\ IsQuoteStart(lexer, lexer.data[lexer.idx + 1])
    /\ \E r \in {LexIter(lexer)} :
          IF r.ok
          THEN /\ lexer' = r.l
               /\ lex_pc' = "lex"
               /\ lex_result' = lex_result
          ELSE /\ lexer' = r.l
               /\ lex_pc' = "err"
               /\ lex_result' = [ok |-> FALSE, err |-> "unexpected EOF"]
    /\ UNCHANGED <<input, parseVars>>

\* One iteration of the while of Lexer::lex on an ordinary character.
LexPlain ==
    /\ lex_pc = "lex"
    /\ lexer.idx < Len(lexer.data)
    /\ ~IsQuoteStart(lexer, lexer.data[lexer.idx + 1])
    /\ lexer' = LexIter(lexer).l
    /\ UNCHANGED <<input, lex_pc, lex_result, parseVars>>

\* Loop exit of Lexer::lex: final push_token, Ok(self.tokens).
LexEnd ==
    /\ lex_pc = "lex"
    /\ lexer.idx >= Len(lexer.data)
    /\ lexer' = push_token(lexer)
    /\ lex_pc' = "done"
    /\ lex_result' = [ok |-> TRUE, v |-> push_token(lexer).tokens]
    /\ UNCHANGED <<input, parseVars>>

Next == New \/ LexQuoted \/ LexPlain \/ LexEnd

Spec == Init /\ [][Next]_vars

TypeOK ==
    /\ lex_pc \in {"idle", "new", "lex", "done", "err"}
    /\ parse_pc \in {"idle", "pcb", "while", "done", "err"}
    /\ parser.idx \in 0..Len(parser.toks)
    /\ lexer.idx \in 0..Len(lexer.data)

(***************************************************************************)
(* Token sequences handed to the parser: "( pcb x", at most MaxSections    *)
(* sections, and the closing parenthesis or the end of input.              *)
(***************************************************************************)
\* The token the lexer makes of the word s.
Lexed(s) == Token(Tok_from_str(to_lowercase(s)).tok, s)

Spelling(tag) == (CHOOSE kw \in FromStrTable : kw[2] = tag)[1]

Form(ws) == [i \in 1..Len(ws) |-> Lexed(ws[i])]

LP == <<"(">>

RP == <<")">>

\* (x y ...): a list of words between parentheses.
Group(ws) == <<LP>> \o ws \o <<RP>>

Sections ==
    { Form(Group(<<Spelling("Parser")>>)),
      Form(Group(<<Spelling("Parser")>> \o Group(<<<<"a">>>>))),
      Form(Group(<<Spelling("Parser")>> \o Group(Group(<<<<"a">>>>)))),
      Form(Group(<<Spelling("Library")>>
                 \o Group(<<Spelling("Image"), <<"i">>>>))),
      Form(Group(<<Spelling("Network")>>
                 \o Group(<<Spelling("Net"), <<"n">>>>))),
      Form(Group(<<Spelling("Placement")>>
                 \o Group(<<Spelling("Component"), <<"c">>>>))),
      Form(Group(<<Spelling("Resolution"), Spelling("Mm"), <<"1", "0">>>>)),
      Form(Group(<<Spelling("Structure")>>
                 \o Group(<<Spelling("Via"), <<"v">>>>))),
      Form(Group(<<Spelling("Unit"), Spelling("Mm")>>)),
      Form(Group(<<Spelling("Wiring")>> \o Group(<<Spelling("Wire")>>))),
      Form(Group(<<Spelling("Image"), <<"i">>>>)) }

SectionSeqs == UNION {[1..n -> Sections] : n \in 0..MaxSections}

PcbHead == Form(<<LP, Spelling("Pcb"), <<"x">>>>)

TokenInputs ==
    {PcbHead \o Concat(ss) \o end : ss \in SectionSeqs, end \in {Form(<<RP>>), <<>>}}

(***************************************************************************)
(* State machine of one Parser::new(&tokens).parse() call.                 *)
(***************************************************************************)
ParserInit ==
    /\ input = <<>>
    /\ lexer = NoLexer
    /\ lex_pc = "idle"
    /\ lex_result = NoResult
    /\ \E toks \in TokenInputs : parser = Parser_new(toks)
    /\ parse_pc = "pcb"
    /\ parse_result = NoResult

\* PcbArm with the Document built so far handed out beside the error.
PcbArm_Partial(r) ==
    /\ IF r.ok
       THEN /\ parser' = r.p
            /\ parse_pc' = "while"
            /\ parse_result' = parse_result
       ELSE /\ parser' = r.p
            /\ parse_pc' = "err"
            /\ parse_result' = [ok |-> FALSE, err |-> r.err, v |-> r.p.pcb]
    /\ UNCHANGED lexVars

\* What a step of Parser::pcb leaves: r is what the lines taken return.
PcbArm(r) ==
    /\ IF r.ok
       THEN /\ parser' = r.p
            /\ parse_pc' = "while"
            /\ parse_result' = parse_result
       ELSE /\ parser' = r.p
            /\ parse_pc' = "err"
            /\ parse_result' = [ok |-> FALSE, err |-> r.err]
    /\ UNCHANGED lexVars

\* Parser::pcb, lines before the while.
PcbHeadStep == parse_pc = "pcb" /\ \E r \in {pcb_head(parser)} : PcbArm(r)

\* The while of Parser::pcb stands before a section whose head is in heads.
AtSection(heads) ==
    /\ parse_pc = "while"
    /\ Parser_peek(parser, 0).ok
    /\ Parser_peek(parser, 0).v.tok # "Rparen"
    /\ Parser_peek(parser, 1).ok
    /\ Parser_peek(parser, 1).v.tok \in heads

PcbLibrary ==
    AtSection({"Library"}) /\ \E r \in {pcb_library(parser)} : PcbArm(r)

PcbNetwork ==
    AtSection({"Network"}) /\ \E r \in {pcb_network(parser)} : PcbArm(r)

PcbParser ==
    AtSection({"Parser"}) /\ \E r \in {ignore(parser)} : PcbArm(r)

PcbPlacement ==
    AtSection({"Placement"}) /\ \E r \in {pcb_placement(parser)} : PcbArm(r)

PcbResolution ==
    AtSection({"Resolution"}) /\ \E r \in {pcb_resolution(parser)} : PcbArm(r)

PcbStructure ==
    AtSection({"Structure"}) /\ \E r \in {pcb_structure(parser)} : PcbArm(r)

PcbUnit ==
    AtSection({"Unit"}) /\ \E r \in {pcb_unit(parser)} : PcbArm(r)

PcbWiring ==
    AtSection({"Wiring"}) /\ \E r \in {pcb_wiring(parser)} : PcbArm(r)

SectionHeads ==
    {"Library", "Network", "Parser", "Placement", "Resolution", "Structure",
     "Unit", "Wiring"}

\* The default arm of the match: an unrecognised head.
PcbUnrecognised ==
    /\ AtSection(Tok \ SectionHeads)
    /\ PcbArm(Err(parser, "unrecognised token"))

\* peek(0) or peek(1) runs past the last token.
PcbEof ==
    /\ parse_pc = "while"
    /\ \/ ~Parser_peek(parser, 0).ok
       \/ /\ Parser_peek(parser, 0).ok
          /\ Parser_peek(parser, 0).v.tok # "Rparen"
          /\ ~Parser_peek(parser, 1).ok
    /\ parse_pc' = "err"
    /\ parse_result' = [ok |-> FALSE, err |-> "unexpected EOF"]
    /\ UNCHANGED <<parser, lexVars>>

\* Exit of the while, expect(Tok::Rparen), and Ok(self.pcb) of Parser::parse.
PcbEnd ==
    /\ parse_pc = "while"
    /\ Parser_peek(parser, 0).ok
    /\ Parser_peek(parser, 0).v.tok = "Rparen"
    /\ \E r \in {expect(parser, "Rparen")} :
          /\ parser' = r.p
          /\ parse_pc' = "done"
          /\ parse_result' = [ok |-> TRUE, v |-> r.p.pcb]
    /\ UNCHANGED lexVars

ParserNext ==
    \/ PcbHeadStep
    \/ PcbLibrary \/ PcbNetwork \/ PcbParser \/ PcbPlacement
    \/ PcbResolution \/ PcbStructure \/ PcbUnit \/ PcbWiring
    \/ PcbUnrecognised \/ PcbEof \/ PcbEnd

ParserSpec == ParserInit /\ [][ParserNext]_vars

(***************************************************************************)
(* Lexing then parsing a text, as parse_dsn of the tests does:             *)
(* Lexer::new(data)?.lex()? and then Parser::new(&tokens).parse().         *)
(* The texts are documents "(pcb <id> <sections>)", whole or cut before    *)
(* the last parenthesis.                                                   *)
(***************************************************************************)
MaxDocSections == 2

\* The words ws with one blank between them.
RECURSIVE Spaced(_)
Spaced(ws) ==
    IF ws = <<>> THEN <<>>
    ELSE IF Len(ws) = 1 THEN Head(ws)
    ELSE Head(ws) \o <<" ">> \o Spaced(Tail(ws))

\* The sections that may be empty.
EmptySections ==
    { Group(<<Spelling("Library")>>), Group(<<Spelling("Network")>>),
      Group(<<Spelling("Placement")>>), Group(<<Spelling("Wiring")>>) }

EmptySectionSeqs == UNION {[1..n -> EmptySections] : n \in 0..MaxDocSections}

\* An id that is a plain word, and one that spells a keyword.
PlainIds == { <<"x">>, <<"M", "m">> }

\* "(pcb id sections" and the closing parenthesis or nothing.
Doc(id, secs, end) ==
    Spaced(<<LP, Spelling("Pcb"), id>> \o secs \o end)

\* The parser block that declares the double quote as the quote character.
QuoteBlock ==
    Group(<<Spelling("Parser"), StringQuoteDirective("\"")>>)

\* Documents with a section of every kind, with quoted ids, and with an
\* error in the lexer or in the parser after a section has been parsed.
OtherDocs ==
    { Doc(<<"x">>, Group(<<Spelling("Resolution"), Spelling("Mm"), <<"1", "0">>>>), <<RP>>),
      Doc(<<"x">>, Group(<<Spelling("Structure")>> \o Group(<<Spelling("Via"), <<"v">>>>)), <<RP>>),
      Doc(<<"x">>, Group(<<Spelling("Unit"), Spelling("Mm")>>), <<RP>>),
      Doc(<<"x">>, Group(<<Spelling("Library")>> \o Group(<<Spelling("Image"), <<"i">>>>)), <<RP>>),
      Doc(<<"\"", "\"">>, QuoteBlock, <<RP>>),
      Doc(<<"\"", "a", " ", "b", "\"">>, QuoteBlock, <<RP>>),
      Doc(<<"\"", "x">>, QuoteBlock, <<RP>>),
      Doc(<<"x">>, Group(<<Spelling("Parser"), StringQuoteDirective("x")>>), <<RP>>),
      Doc(<<"x">>, Group(<<Spelling("Library")>> \o Group(<<Spelling("Image"), <<"i">>>>))
                   \o Group(<<Spelling("Image"), <<"i">>>>), <<RP>>),
      Doc(<<"x">>, Group(<<Spelling("Unit"), Spelling("Mm")>>)
                   \o Group(<<Spelling("Resolution"), Spelling("Mm"), <<"x">>>>), <<RP>>),
      Doc(<<"x">>, Group(<<Spelling("Network")>> \o Group(<<Spelling("Net"), <<"n">>>>))
                   \o <<LP>>, <<>>),
      Spaced(<<LP, Spelling("Pcb")>>),
      <<>> }

DocTexts ==
    {Doc(id, Concat(ss), end) :
        id \in PlainIds, ss \in EmptySectionSeqs, end \in {<<RP>>, <<>>}}
      \cup OtherDocs

DocInit ==
    /\ input \in DocTexts
    /\ lexer = NoLexer
    /\ lex_pc = "new"
    /\ lex_result = NoResult
    /\ parser = Parser_new(<<>>)
    /\ parse_pc = "idle"
    /\ parse_result = NoResult

\* Parser::new(&tokens) on the tokens the lexer returned.
ParseNew ==
    /\ lex_pc = "done"
    /\ parse_pc = "idle"
    /\ parser' = Parser_new(lex_result.v)
    /\ parse_pc' = "pcb"
    /\ UNCHANGED <<lexVars, parse_result>>

DocNext == Next \/ ParseNew \/ ParserNext

DocSpec == DocInit /\ [][DocNext]_vars

(***************************************************************************)
(* Token sequences "( pcb x <section> )" that exercise one rule of the     *)
(* parser each, and the parse of them.                                     *)
(***************************************************************************)
MaxPins == 2

\* "( pcb x", the section and the closing parenthesis, as tokens.
RuleDoc(sec) == PcbHead \o Form(sec) \o Form(<<RP>>)

\* Words of a (pins ...) list: with one hyphen, with several, with none,
\* and with a hyphen at either end.
PinWords ==
    { <<"R", "-", "A", "-", "1">>, <<"R", "1", "-", "1">>, <<"R", "1">>,
      <<"-">>, <<"-", "1">>, <<"R", "1", "-">>, <<"U", "-", "-", "2">> }

PinWordSeqs == UNION {[1..n -> PinWords] : n \in 0..MaxPins}

\* (network (net n (pins w1 w2 ...)))
PinsSection(ws) ==
    Group(<<Spelling("Network")>>
          \o Group(<<Spelling("Net"), <<"n">>>>
                   \o Group(<<Spelling("Pins")>> \o ws)))

MaxPoints == 3

\* Points as they are written (two words) and as they are read.
ShapePoints ==
    { [ws |-> <<<<"0">>, <<"0">>>>, v |-> pt(Zero, Zero)],
      [ws |-> <<<<"1">>, <<"0">>>>, v |-> pt(Normalise(1, 0), Zero)],
      [ws |-> <<<<"-", "1", ".", "5">>, <<"2", "e", "1">>>>,
       v  |-> pt(Normalise(-15, 1), Normalise(2, -1))] }

ShapePointSeqs == UNION {[1..n -> ShapePoints] : n \in 0..MaxPoints}

\* The words of the points ps, in order.
RECURSIVE PointWords(_)
PointWords(ps) == IF ps = <<>> THEN <<>> ELSE Head(ps).ws \o PointWords(Tail(ps))

\* (structure (boundary (<kind> L 0 x1 y1 x2 y2 ...)))
OutlineSection(kind, ps) ==
    Group(<<Spelling("Structure")>>
          \o Group(<<Spelling("Boundary")>>
                   \o Group(<<Spelling(kind), <<"L">>, <<"0">>>> \o PointWords(ps))))

\* (structure (boundary (rect L ax ay bx by)))
RectSection(a, b) ==
    Group(<<Spelling("Structure")>>
          \o Group(<<Spelling("Boundary")>>
                   \o Group(<<Spelling("Rect"), <<"L">>>> \o a.ws \o b.ws)))

\* Parenthesized children whose head has a rule in no loop: a word that is
\* no keyword, and a keyword.
UnruledChildren ==
    { Group(<<<<"z", "z">>>>), Group(<<Spelling("Window")>>) }

Loops ==
    { "pcb", "library", "network", "placement", "structure", "wiring",
      "layer", "component", "place", "image", "keepout", "padstack",
      "class", "circuit", "net", "rule" }

\* A section in which the words c stand where the loop of the rule named
\* takes its children ("pcb": c is the section).
LoopForm(loop, c) ==
    CASE loop = "pcb" -> c
      [] loop = "library" -> Group(<<Spelling("Library")>> \o c)
      [] loop = "network" -> Group(<<Spelling("Network")>> \o c)
      [] loop = "placement" -> Group(<<Spelling("Placement")>> \o c)
      [] loop = "structure" -> Group(<<Spelling("Structure")>> \o c)
      [] loop = "wiring" -> Group(<<Spelling("Wiring")>> \o c)
      [] loop = "layer" ->
            Group(<<Spelling("Structure")>>
                  \o Group(<<Spelling("Layer"), <<"L">>>> \o c))
      [] loop = "component" ->
            Group(<<Spelling("Placement")>>
                  \o Group(<<Spelling("Component"), <<"i">>>> \o c))
      [] loop = "place" ->
            Group(<<Spelling("Placement")>>
                  \o Group(<<Spelling("Component"), <<"i">>>>
                           \o Group(<<Spelling("Place"), <<"R">>, <<"0">>, <<"0">>,
                                      Spelling("Front"), <<"0">>>> \o c)))
      [] loop = "image" ->
            Group(<<Spelling("Library")>>
                  \o Group(<<Spelling("Image"), <<"i">>>> \o c))
      [] loop = "keepout" ->
            Group(<<Spelling("Structure")>>
                  \o Group(<<Spelling("Keepout")>> \o c))
      [] loop = "padstack" ->
            Group(<<Spelling("Library")>>
                  \o Group(<<Spelling("Padstack"), <<"p">>>> \o c))
      [] loop = "class" ->
            Group(<<Spelling("Network")>>
                  \o Group(<<Spelling("Class"), <<"k">>>> \o c))
      [] loop = "circuit" ->
            Group(<<Spelling("Network")>>
                  \o Group(<<Spelling("Class"), <<"k">>>>
                           \o Group(<<Spelling("Circuit")>> \o c)))
      [] loop = "net" ->
            Group(<<Spelling("Network")>>
                  \o Group(<<Spelling("Net"), <<"n">>>> \o c))
      [] loop = "rule" ->
            Group(<<Spelling("Structure")>>
                  \o Group(<<Spelling("Rule")>> \o c))

\* What a skipped block may hold after its head: nothing, a group, a group
\* in a group.
SkippedBodies ==
    { <<>>, Group(<<<<"a">>>>), Group(Group(<<<<"a">>>>)) }

\* The two blocks that are skipped, each followed in its loop by the words c.
SkipThen(loop, body, c) ==
    IF loop = "pcb"
    THEN LoopForm("pcb", Group(<<Spelling("Parser")>> \o body) \o c)
    ELSE LoopForm("layer", Group(<<Spelling("Property")>> \o body) \o c)

\* Sections with a child that has no rule where it stands.
UnruledSections ==
    {LoopForm(loop, c) : loop \in Loops, c \in UnruledChildren}
      \cup {SkipThen(loop, body, c) :
               loop \in {"pcb", "layer"}, body \in SkippedBodies,
               c \in UnruledChildren}

\* Sections with a skipped block and no other child.
SkipSections ==
    {SkipThen(loop, body, <<>>) :
        loop \in {"pcb", "layer"}, body \in SkippedBodies}

\* The positions where the parser reads a tag of an enumeration; the
\* dimension is read by Parser::unit and by Parser::resolution.
EnumPositions ==
    { "side", "lock_type", "layer_type", "keepout_type", "clearance_type",
      "onoff", "unit", "resolution" }

\* Words tried at each position: the spelling of every tag of every
\* enumeration, a word that is no keyword, and the two parentheses.
EnumWords ==
    {Spelling(tag) :
        tag \in { "Back", "Both", "Front", "Gate", "Position", "Jumper",
                  "Mixed", "Power", "Signal", "Keepout", "ViaKeepout",
                  "WireKeepout", "DefaultSmd", "SmdSmd", "Off", "On",
                  "Inch", "Mil", "Cm", "Mm", "Um" }}
      \cup { <<"z", "z">>, LP, RP }

\* A section with the word w at the position named.
EnumSection(pos, w) ==
    CASE pos = "side" ->
            LoopForm("component",
                     Group(<<Spelling("Place"), <<"R">>, <<"0">>, <<"0">>,
                             w, <<"0">>>>))
      [] pos = "lock_type" ->
            LoopForm("place", Group(<<Spelling("LockType"), w>>))
      [] pos = "layer_type" ->
            LoopForm("layer", Group(<<Spelling("Type"), w>>))
      [] pos = "keepout_type" -> LoopForm("structure", Group(<<w>>))
      [] pos = "clearance_type" ->
            LoopForm("rule", Group(<<Spelling("Clearance"), <<"1">>>>
                                   \o Group(<<Spelling("Type"), w>>)))
      [] pos = "onoff" ->
            LoopForm("padstack", Group(<<Spelling("Attach"), w>>))
      [] pos = "unit" -> Group(<<Spelling("Unit"), w>>)
      [] pos = "resolution" -> Group(<<Spelling("Resolution"), w, <<"1">>>>)

EnumSections ==
    {EnumSection(pos, w) : pos \in EnumPositions, w \in EnumWords}

\* The heads that have an arm in the match of a loop.
Arms(loop) ==
    CASE loop = "pcb" -> SectionHeads
      [] loop = "library" -> {"Image", "Padstack"}
      [] loop = "network" -> {"Class", "Net"}
      [] loop = "placement" -> {"Component"}
      [] loop = "structure" ->
            {"Boundary", "Keepout", "ViaKeepout", "WireKeepout", "Layer",
             "Plane", "Rule", "Via"}
      [] loop = "wiring" -> {"Wire", "Via"}
      [] loop = "layer" -> {"Type", "Property"}
      [] loop = "component" -> {"Place"}
      [] loop = "place" -> {"LockType", "Pn"}
      [] loop = "image" ->
            {"Outline", "Pin", "Keepout", "ViaKeepout", "WireKeepout"}
      [] loop = "keepout" -> {"Rect", "Circle", "Polygon", "Path", "Qarc"}
      [] loop = "padstack" -> {"Attach", "Shape"}
      [] loop = "class" -> {"Circuit", "Rule"}
      [] loop = "circuit" -> {"UseVia"}
      [] loop = "net" -> {"Pins"}
      [] loop = "rule" -> {"Width", "Clearance"}

\* Words that are no parenthesis: one that is no keyword, and a keyword.
StrayWords == { <<"z", "z">>, Spelling("Window") }

\* A section in which a loop stands before a stray word followed by a head
\* that has an arm there, and then by the words of tail.
StraySection(loop, w, head, tail) ==
    LoopForm(loop, <<w, Spelling(head)>> \o tail)

\* Every loop but that of class, where a word that is no parenthesis is a
\* net id.
StraySections ==
    UNION {{StraySection(loop, w, head, tail) :
                w \in StrayWords, head \in Arms(loop), tail \in {<<>>, <<RP>>}} :
           loop \in Loops \ {"class"}}

\* The constructs whose rule populates no field, each as <<loop, head>>.
Stubs == { <<"wiring", "Wire">>, <<"wiring", "Via">>, <<"structure", "Plane">> }

\* What a stub may hold after its head: nothing, a word, a group, a group
\* in a group.
StubBodies == SkippedBodies \cup { <<<<"a">>>> }

StubSection(stub, body) ==
    LoopForm(stub[1], Group(<<Spelling(stub[2])>> \o body))

StubSections == {StubSection(stub, body) : stub \in Stubs, body \in StubBodies}

MaxTypes == 2

\* Lists of clearance types, in the order of the (type ...) children.
ClearanceTypeSeqs ==
    UNION {[1..n -> {"DefaultSmd", "SmdSmd"}] : n \in 0..MaxTypes}

RECURSIVE TypeChildren(_)
TypeChildren(types) ==
    IF types = <<>> THEN <<>>
    ELSE Group(<<Spelling("Type"), Spelling(Head(types))>>)
           \o TypeChildren(Tail(types))

\* (structure (rule (clearance 1 (type t1) (type t2) ...)))
ClearanceSection(types) ==
    LoopForm("rule", Group(<<Spelling("Clearance"), <<"1">>>>
                           \o TypeChildren(types)))

ClearanceSections == {ClearanceSection(types) : types \in ClearanceTypeSeqs}

MaxItems == 2

\* The names that tell the entries of a list apart.
ListItems == { <<"a">>, <<"b">> }

ListItemSeqs == UNION {[1..n -> ListItems] : n \in 0..MaxItems}

\* The list-valued fields of the Document.
ListFields ==
    { "images", "padstacks", "image_pins", "nets", "classes", "net_ids",
      "net_pins", "components", "refs", "layers", "boundaries", "keepouts",
      "vias", "rules" }

\* The width that stands for a name in a (rule (width ...)) form.
ItemWidth(k) == IF k = <<"a">> THEN <<"1">> ELSE <<"2">>

\* The keepout type that stands for a name.
ItemKeepout(k) == IF k = <<"a">> THEN "Keepout" ELSE "ViaKeepout"

\* The form or token that makes the entry named k of a list.
ItemForm(field, k) ==
    CASE field = "images" -> Group(<<Spelling("Image"), k>>)
      [] field = "padstacks" -> Group(<<Spelling("Padstack"), k>>)
      [] field = "image_pins" ->
            Group(<<Spelling("Pin"), <<"P">>, k, <<"0">>, <<"0">>>>)
      [] field = "nets" -> Group(<<Spelling("Net"), k>>)
      [] field = "classes" -> Group(<<Spelling("Class"), k>>)
      [] field = "net_ids" -> <<k>>
      [] field = "net_pins" -> <<k \o <<"-", "1">>>>
      [] field = "components" -> Group(<<Spelling("Component"), k>>)
      [] field = "refs" ->
            Group(<<Spelling("Place"), k, <<"0">>, <<"0">>,
                    Spelling("Front"), <<"0">>>>)
      [] field = "layers" -> Group(<<Spelling("Layer"), k>>)
      [] field = "boundaries" ->
            Group(<<Spelling("Boundary")>>
                  \o Group(<<Spelling("Rect"), k, <<"0">>, <<"0">>,
                             <<"1">>, <<"1">>>>))
      [] field = "keepouts" -> Group(<<Spelling(ItemKeepout(k))>>)
      [] field = "vias" -> <<k>>
      [] field = "rules" ->
            Group(<<Spelling("Rule")>>
                  \o Group(<<Spelling("Width"), ItemWidth(k)>>))

RECURSIVE ItemForms(_, _)
ItemForms(field, items) ==
    IF items = <<>> THEN <<>>
    ELSE ItemForm(field, Head(items)) \o ItemForms(field, Tail(items))

\* A section whose list named holds the entries items, in that order.
ListSection(field, items) ==
    CASE field \in {"images", "padstacks"} ->
            LoopForm("library", ItemForms(field, items))
      [] field = "image_pins" -> LoopForm("image", ItemForms(field, items))
      [] field \in {"nets", "classes"} ->
            LoopForm("network", ItemForms(field, items))
      [] field = "net_ids" -> LoopForm("class", ItemForms(field, items))
      [] field = "net_pins" ->
            LoopForm("net", Group(<<Spelling("Pins")>> \o ItemForms(field, items)))
      [] field = "components" -> LoopForm("placement", ItemForms(field, items))
      [] field = "refs" -> LoopForm("component", ItemForms(field, items))
      [] field \in {"layers", "boundaries", "keepouts", "rules"} ->
            LoopForm("structure", ItemForms(field, items))
      [] field = "vias" ->
            LoopForm("structure", Group(<<Spelling("Via")>> \o ItemForms(field, items)))

ListSections ==
    {ListSection(field, items) : field \in ListFields, items \in ListItemSeqs}

\* Words tried as the amount of a resolution: integers at and around both
\* ends of the 32-bit range, with a sign, with leading zeros; words with a
\* decimal point or an exponent; words that are no number; a keyword, the
\* two parentheses and the empty word of an empty quoted run.
AmountWords ==
    { <<"0">>, <<"1", "0">>, <<"-", "1">>, <<"+", "7">>, <<"0", "0", "7">>,
      <<"-", "0">>,
      <<"2", "1", "4", "7", "4", "8", "3", "6", "4", "7">>,
      <<"2", "1", "4", "7", "4", "8", "3", "6", "4", "8">>,
      <<"0", "2", "1", "4", "7", "4", "8", "3", "6", "4", "7">>,
      <<"-", "2", "1", "4", "7", "4", "8", "3", "6", "4", "8">>,
      <<"-", "2", "1", "4", "7", "4", "8", "3", "6", "4", "9">>,
      <<"3", "0", "0", "0", "0", "0", "0", "0", "0", "0">>,
      <<"9", "9", "9", "9", "9", "9", "9", "9", "9", "9", "9">>,
      <<"1", ".", "0">>, <<"1", ".", "5">>, <<"1", ".">>, <<".", "5">>,
      <<"1", "e", "3">>, <<"0", "x", "1", "0">>, <<"1", "_", "0">>,
      <<"x">>, <<"-">>, <<"+">>, <<"+", "-", "1">>, <<>>,
      Spelling("Mm"), LP, RP }

\* (resolution mm <w>)
ResolutionSection(w) ==
    Group(<<Spelling("Resolution"), Spelling("Mm"), w>>)

ResolutionSections == {ResolutionSection(w) : w \in AmountWords}

\* Sections of documents that are followed by further tokens: none, an
\* empty one, one with a value, a skipped block, a child with no rule, and
\* a stray word before the head parser.
TrailBases ==
    { <<>>,
      Group(<<Spelling("Library")>>),
      Group(<<Spelling("Unit"), Spelling("Mm")>>),
      Group(<<Spelling("Parser")>> \o Group(<<<<"a">>>>)),
      Group(<<Spelling("Parser")>> \o Group(Group(<<<<"a">>>>))),
      Group(<<<<"z", "z">>>>),
      <<<<"z", "z">>, Spelling("Parser")>> }

\* Tokens after the parenthesis that closes the pcb form.
Trailers ==
    { <<RP>>, <<LP>>, <<RP, RP>>, <<<<"y">>>>,
      Group(<<Spelling("Library")>> \o Group(<<Spelling("Image"), <<"i">>>>)),
      Group(<<Spelling("Pcb"), <<"y">>>>) }

TrailDoc(base, t) == RuleDoc(base) \o Form(t)

TrailInputs == {TrailDoc(base, t) : base \in TrailBases, t \in Trailers}

\* What a repeated section holds: nothing, or the entry named.
Contents == ListItems \cup { <<>> }

\* The section of the keyword head with the content k; a resolution and a
\* unit have no empty form.
SectionWith(head, k) ==
    CASE head = "Library" ->
            LoopForm("library", IF k = <<>> THEN <<>> ELSE ItemForm("images", k))
      [] head = "Network" ->
            LoopForm("network", IF k = <<>> THEN <<>> ELSE ItemForm("nets", k))
      [] head = "Placement" ->
            LoopForm("placement",
                     IF k = <<>> THEN <<>> ELSE ItemForm("components", k))
      [] head = "Structure" ->
            LoopForm("structure", IF k = <<>> THEN <<>> ELSE ItemForm("layers", k))
      [] head = "Wiring" ->
            LoopForm("wiring",
                     IF k = <<>> THEN <<>>
                     ELSE Group(<<Spelling(IF k = <<"a">> THEN "Wire" ELSE "Via")>>))
      [] head = "Resolution" ->
            Group(<<Spelling("Resolution"),
                    Spelling(IF k = <<"a">> THEN "Mm" ELSE "Um"), ItemWidth(k)>>)
      [] head = "Unit" ->
            Group(<<Spelling("Unit"), Spelling(IF k = <<"a">> THEN "Mm" ELSE "Um")>>)

\* The contents a section of the keyword may have.
ContentsOf(head) ==
    IF head \in {"Resolution", "Unit"} THEN ListItems ELSE Contents

\* Two sections of one keyword, the first with k1 and the second with k2.
RepeatedSection(head, k1, k2) == SectionWith(head, k1) \o SectionWith(head, k2)

RepeatedSections ==
    UNION {{RepeatedSection(head, k1, k2) :
                k1 \in ContentsOf(head), k2 \in ContentsOf(head)} :
           head \in SectionHeads \ {"Parser"}}

\* The positions where the parser reads an identifier.
IdPositions ==
    { "pcb_id", "layer_name", "image_id", "padstack_id", "net_id", "class_id",
      "vias", "part_number" }

\* Words tried as an identifier: a plain word, two keywords and the two
\* parentheses.
IdWords == { <<"z", "z">>, Spelling("Pcb"), Spelling("Library"), LP, RP }

\* The document with the word w at the identifier position named.
IdDoc(pos, w) ==
    CASE pos = "pcb_id" -> Form(<<LP, Spelling("Pcb"), w, RP>>)
      [] pos = "layer_name" ->
            RuleDoc(LoopForm("structure", Group(<<Spelling("Layer"), w>>)))
      [] pos = "image_id" ->
            RuleDoc(LoopForm("library", Group(<<Spelling("Image"), w>>)))
      [] pos = "padstack_id" ->
            RuleDoc(LoopForm("library", Group(<<Spelling("Padstack"), w>>)))
      [] pos = "net_id" ->
            RuleDoc(LoopForm("network", Group(<<Spelling("Net"), w>>)))
      [] pos = "class_id" ->
            RuleDoc(LoopForm("network", Group(<<Spelling("Class"), w>>)))
      [] pos = "vias" ->
            RuleDoc(LoopForm("structure", Group(<<Spelling("Via"), w>>)))
      [] pos = "part_number" ->
            RuleDoc(LoopForm("place", Group(<<Spelling("Pn"), w>>)))

IdInputs == {IdDoc(pos, w) : pos \in IdPositions, w \in IdWords}

RuleSections ==
    {PinsSection(ws) : ws \in PinWordSeqs}
      \cup {OutlineSection(kind, ps) :
                kind \in {"Polygon", "Path"}, ps \in ShapePointSeqs}
      \cup {RectSection(a, b) : a \in ShapePoints, b \in ShapePoints}
      \cup UnruledSections \cup SkipSections \cup EnumSections
      \cup StraySections \cup StubSections \cup ClearanceSections
      \cup ListSections \cup ResolutionSections \cup RepeatedSections

\* The documents of the sections, the documents with a skipped block cut
\* before their last parenthesis, the documents followed by further
\* tokens, and the documents with a word at an identifier position.
RuleInputs ==
    {RuleDoc(sec) : sec \in RuleSections}
      \cup {PcbHead \o Form(sec) : sec \in SkipSections}
      \cup TrailInputs \cup IdInputs

RuleInit ==
    /\ input = <<>>
    /\ lexer = NoLexer
    /\ lex_pc = "idle"
    /\ lex_result = NoResult
    /\ \E toks \in RuleInputs : parser = Parser_new(toks)
    /\ parse_pc = "pcb"
    /\ parse_result = NoResult

RuleSpec == RuleInit /\ [][ParserNext]_vars

(***************************************************************************)
(* Lexer::lex and Parser::parse run to their end: the texts of DocSpec      *)
(* through both, the token sequences of RuleSpec through the parser.  Each  *)
(* step is one iteration of a loop of the code, and a loop that is entered  *)
(* is left or iterated again.                                               *)
(***************************************************************************)
TermInit == DocInit \/ RuleInit

\* Lexer::new or the while of Lexer::lex has a step to take.
Lexing == lex_pc \in {"new", "lex"}

\* Parser::pcb has a step to take.
Parsing == parse_pc \in {"pcb", "while"}

\* Weak fairness of the three parts of DocNext: the thread that runs the
\* calls does not stop between two steps.  For Next and ParserNext it is
\* written out, with the guards Lexing and Parsing in the place of
\* ENABLED <<Next>>_vars and ENABLED <<ParserNext>>_vars: every step of
\* either is taken whenever its guard holds.
TermFairness ==
    /\ WF_vars(ParseNew)
    /\ []<>(~Lexing) \/ []<><<Next>>_vars
    /\ []<>(~Parsing) \/ []<><<ParserNext>>_vars

TermSpec == TermInit /\ [][DocNext]_vars /\ TermFairness

(***************************************************************************)
(* Vocabulary of the lexer properties, stated on the text itself.          *)
(***************************************************************************)
Paren == {"(", ")"}

IsSep(c) == c \in WhiteSpace \/ c \in Paren

\* s contains t as a contiguous substring.
Contains(s, t) == \E i \in 0..(Len(s) - Len(t)) : SubSeq(s, i + 1, i + Len(t)) = t

\* Number of positions of s that hold c.
Count(s, c) == Cardinality({i \in 1..Len(s) : s[i] = c})

\* A quoted run can start: a quote character is configured and
\* space-tolerant quoting has not been switched off.
QuotingActive == lexer.string_quote # None /\ lexer.spaces_in_quotes

\* The positions (1-based) where an item of an unquoted text starts: every
\* parenthesis, and every first character of a maximal run of characters
\* that are neither whitespace nor parenthesis.
ItemStarts(s) ==
    {i \in 1..Len(s) :
        \/ s[i] \in Paren
        \/ ~IsSep(s[i]) /\ (i = 1 \/ IsSep(s[i - 1]))}

\* The last position of the item that starts at i.
ItemEnd(s, i) ==
    IF s[i] \in Paren THEN i
    ELSE CHOOSE e \in i..Len(s) :
           /\ \A k \in i..e : ~IsSep(s[k])
           /\ (e = Len(s) \/ IsSep(s[e + 1]))

\* The items of s in text order.
Items(s) ==
    LET st == ItemStarts(s)
        nth(n) == CHOOSE i \in st : Cardinality({j \in st : j < i}) = n - 1
    IN [n \in 1..Cardinality(st) |-> SubSeq(s, nth(n), ItemEnd(s, nth(n)))]

\* The maximal run of non-separator characters that ends at position e
\* (empty when position e holds a separator or e = 0).
WordEndingAt(s, e) ==
    IF e = 0 \/ IsSep(s[e]) THEN <<>>
    ELSE LET b == CHOOSE b \in 1..e :
                    /\ \A k \in b..e : ~IsSep(s[k])
                    /\ (b = 1 \/ IsSep(s[b - 1]))
         IN SubSeq(s, b, e)

\* The tag the keyword table gives a word: the keyword whose spelling is the
\* lower-cased word, Literal when there is none.
KeywordTag(w) ==
    IF \E p \in FromStrTable : p[1] = to_lowercase(w)
    THEN (CHOOSE p \in FromStrTable : p[1] = to_lowercase(w))[2]
    ELSE "Literal"

Texts(toks) == [i \in 1..Len(toks) |-> toks[i].s]

\* The lexer stands right behind a quoted run: quoting is active and the
\* character just consumed is the quote character (a quote character is only
\* ever consumed as the opening or the closing quote of a run).
AfterQuotedRun ==
    /\ lex_pc \in {"lex", "done"}
    /\ QuotingActive
    /\ lexer.idx > 0
    /\ lexer.data[lexer.idx] = lexer.string_quote[1]

\* The characters strictly between the closing quote at position idx and the
\* quote that opened the run (the nearest quote character before it).
RunContent ==
    LET q == lexer.string_quote[1]
        o == CHOOSE o \in 1..(lexer.idx - 1) :
                 /\ lexer.data[o] = q
                 /\ \A k \in (o + 1)..(lexer.idx - 1) : lexer.data[k] # q
    IN SubSeq(lexer.data, o + 1, lexer.idx - 1)

Last(seq) == seq[Len(seq)]

\* Lexer::new(text)?.lex(), as the caller sees it.
RunLexer(text) ==
    LET n == Lexer_new(text)
    IN IF ~n.ok THEN [ok |-> FALSE, v |-> <<>>]
       ELSE LET r == Lexer_lex(n.v)
            IN IF r.ok THEN [ok |-> TRUE, v |-> r.v] ELSE [ok |-> FALSE, v |-> <<>>]

(***************************************************************************)
(* C2. With quoting active, every quoted run yields exactly one token,     *)
(* tagged Literal, whose text is exactly the characters strictly between   *)
(* the opening quote and the next quote character; characters touching the *)
(* quotes from outside are not part of it.                                 *)
(***************************************************************************)
\* C2: right after a quoted run the last token is Literal and its text is
\* exactly the characters between the two quote characters.
C2_QuotedRunIsItsContent ==
    AfterQuotedRun =>
        /\ lexer.tokens # <<>>
        /\ Last(lexer.tokens) = Token("Literal", RunContent)

(***************************************************************************)
(* C4. A quoted literal whose content spells a reserved keyword or a       *)
(* parenthesis is emitted with tag Literal, never with that keyword's or   *)
(* parenthesis' tag.                                                       *)
(***************************************************************************)
\* C4: right after a quoted run whose content spells a keyword or a
\* parenthesis, the last token is tagged Literal.
C4_QuotedKeywordIsLiteral ==
    /\ (AfterQuotedRun /\ KeywordTag(RunContent) # "Literal") =>
           /\ lexer.tokens # <<>>
           /\ Last(lexer.tokens).tok = "Literal"
    \* Every spelling of the keyword table between every accepted quote
    \* character, computed once, on the empty input.
    /\ (lex_pc = "new" /\ input = <<>>) =>
           \A kw \in FromStrTable, q \in QuoteChars :
               RunLexer(StringQuoteDirective(q) \o <<q>> \o kw[1] \o <<q>>)
                   = [ok |-> TRUE, v |-> <<Token("Literal", kw[1])>>]

C4_Witness ==
    /\ AfterQuotedRun
    /\ KeywordTag(RunContent) = "Mm"
    /\ Last(lexer.tokens) = Token("Literal", <<"M","m">>)

C4_WitnessParen ==
    /\ AfterQuotedRun
    /\ RunContent = <<"(">>
    /\ Last(lexer.tokens) = Token("Literal", <<"(">>)

(***************************************************************************)
(* C3. With a quote character configured and the toggle directive present, *)
(* a quote-delimited text of k whitespace-delimited pieces lexes to exactly *)
(* k tokens, all tagged Literal, each carrying its quote character; no      *)
(* quoted run is formed.                                                    *)
(***************************************************************************)
Quote == "\""

QuoteDelimited(s) ==
    /\ Len(s) >= 2
    /\ s[1] = Quote /\ s[Len(s)] = Quote
    /\ \A i \in 2..(Len(s) - 1) : s[i] # Quote

\* The whitespace-delimited pieces of s, in text order.
WsPieces(s) ==
    LET st == {i \in 1..Len(s) :
                 ~is_whitespace(s[i]) /\ (i = 1 \/ is_whitespace(s[i - 1]))}
        nth(n) == CHOOSE i \in st : Cardinality({j \in st : j < i}) = n - 1
        end(i) == CHOOSE e \in i..Len(s) :
                    /\ \A k \in i..e : ~is_whitespace(s[k])
                    /\ (e = Len(s) \/ is_whitespace(s[e + 1]))
    IN [n \in 1..Cardinality(st) |-> SubSeq(s, nth(n), end(nth(n)))]

HasChar(s, c) == \E i \in 1..Len(s) : s[i] = c

\* A finished run over a quote-delimited text, with both directives given.
QuotingOffCase ==
    /\ lex_pc = "done"
    /\ Contains(input, StringQuoteDirective(Quote))
    /\ Contains(input, SpaceOffDirective)
    /\ QuoteDelimited(lexer.data)

C5_InvalidQuoteAlwaysRejected ==
    (lex_pc # "new" /\ Contains(input, StringQuoteDirective("x"))) =>
        /\ lex_pc = "err"
        /\ ~lex_result.ok

(***************************************************************************)
(* C6. The effect of a directive does not depend on where it stands: the   *)
(* outcome of lexing is the same with the directive moved in front of or   *)
(* behind the rest of the text.                                            *)
(***************************************************************************)
Occurrences(s, d) ==
    {i \in 0..(Len(s) - Len(d)) : SubSeq(s, i + 1, i + Len(d)) = d}

StringQuoteName == <<"s","t","r","i","n","g","_","q","u","o","t","e">>

Observed ==
    [ok |-> lex_result.ok, v |-> IF lex_result.ok THEN lex_result.v ELSE <<>>]

\* d occurs exactly once in the input and, when d is the quote directive, it
\* is the only string_quote form of the text.
SoleDirective(d) ==
    /\ Cardinality(Occurrences(input, d)) = 1
    /\ d = StringQuoteDirective(Quote) =>
          Cardinality(Occurrences(input, StringQuoteName)) = 1

WithoutDirective(d) ==
    LET i == CHOOSE i \in Occurrences(input, d) : TRUE
    IN SubSeq(input, 1, i) \o SubSeq(input, i + Len(d) + 1, Len(input))

\* C6: with one directive in the text, moving it to the front or to the
\* back of the text leaves the outcome of new-then-lex unchanged.
C6_DirectivePositionIrrelevant ==
    \A d \in {StringQuoteDirective(Quote), SpaceOffDirective} :
        (lex_pc \in {"done", "err"} /\ SoleDirective(d)) =>
            \A t \in {d \o WithoutDirective(d), WithoutDirective(d) \o d} \ {input} :
                RunLexer(t) = Observed

\* The quote directive stands behind the quoted literal it governs.
C6_Witness ==
    /\ lex_pc = "done"
    /\ input = <<Quote, "(", Quote>> \o StringQuoteDirective(Quote)
    /\ lex_result.v = <<Token("Literal", <<"(">>)>>

(***************************************************************************)
(* C7. A text of parentheses, whitespace and unquoted words lexes, in text *)
(* order, to one token per word and one per parenthesis; whitespace yields *)
(* no token; the empty and the all-whitespace text yield no token.         *)
(***************************************************************************)
PlainChars == Paren \cup WhiteSpace \cup {"M", "m"}

PlainText(s) == \A i \in 1..Len(s) : s[i] \in PlainChars

ParenTag(c) == IF c = "(" THEN "Lparen" ELSE "Rparen"

\* C7: an unquoted text lexes to one token per word and per parenthesis, in
\* text order, each parenthesis with its own tag, and whitespace yields none.
C7_OneTokenPerItem ==
    (lex_pc # "new" /\ PlainText(input)) =>
        /\ lex_pc # "err"
        /\ lex_pc = "done" =>
              /\ Texts(lex_result.v) = Items(input)
              /\ \A i \in 1..Len(lex_result.v) :
                    lex_result.v[i].s[1] \in Paren =>
                        lex_result.v[i].tok = ParenTag(lex_result.v[i].s[1])

C7_Witness ==
    /\ lex_pc = "done"
    /\ input = <<"(", "M", "m", " ", ")">>
    /\ Texts(lex_result.v) = << <<"(">>, <<"M", "m">>, <<")">> >>

C7_WitnessBlank ==
    /\ lex_pc = "done"
    /\ input = <<" ", " ">>
    /\ lex_result.v = <<>>

(***************************************************************************)
(* C8. The token of an unquoted word carries the keyword tag whose         *)
(* spelling equals the lower-cased word, Literal when there is none, and   *)
(* the word itself, casing unchanged, as its text.                         *)
(***************************************************************************)
\* No character of w can open a quoted run.
Unquoted(w) == ~(QuotingActive /\ HasChar(w, lexer.string_quote[1]))

\* The word s in capital letters.
UpperCased(s) ==
    [i \in 1..Len(s) |->
        IF \E u \in DOMAIN LowerMap : LowerMap[u] = s[i]
        THEN CHOOSE u \in DOMAIN LowerMap : LowerMap[u] = s[i]
        ELSE s[i]]

\* C8: the token of an unquoted word has the tag of the word's lower-cased
\* spelling (Literal when it is no keyword) and the word's original text.
C8_WordTagAndText ==
    \* Every spelling of the keyword table, written in capitals, computed
    \* once, on the empty input.
    /\ (lex_pc = "new" /\ input = <<>>) =>
          \A kw \in FromStrTable :
              RunLexer(UpperCased(kw[1]))
                  = [ok |-> TRUE, v |-> <<Token(kw[2], UpperCased(kw[1]))>>]
    /\ (lex_pc = "lex" /\ lexer.idx > 0 /\ IsSep(lexer.data[lexer.idx])) =>
          LET w == WordEndingAt(lexer.data, lexer.idx - 1)
              k == IF lexer.data[lexer.idx] \in Paren
                   THEN Len(lexer.tokens) - 1 ELSE Len(lexer.tokens)
          IN (w # <<>> /\ Unquoted(w)) =>
                 /\ k >= 1
                 /\ lexer.tokens[k] = Token(KeywordTag(w), w)
    /\ lex_pc = "done" =>
          LET w == WordEndingAt(lexer.data, Len(lexer.data))
          IN (w # <<>> /\ Unquoted(w)) =>
                 /\ lex_result.v # <<>>
                 /\ Last(lex_result.v) = Token(KeywordTag(w), w)

C8_WitnessKeyword ==
    /\ lex_pc = "done"
    /\ WordEndingAt(lexer.data, Len(lexer.data)) = <<"M", "m">>
    /\ Last(lex_result.v) = Token("Mm", <<"M", "m">>)

C8_WitnessLiteral ==
    /\ lex_pc = "lex" /\ lexer.idx > 0 /\ lexer.data[lexer.idx] = ")"
    /\ WordEndingAt(lexer.data, lexer.idx - 1) = <<"M", "m", "M", "m">>
    /\ lexer.tokens[Len(lexer.tokens) - 1] = Token("Literal", <<"M", "m", "M", "m">>)

(***************************************************************************)
(* C9. With quoting active, a quote that opens a run which no later quote  *)
(* closes makes lex return an error: no token sequence is returned.        *)
(***************************************************************************)
\* Outside a run the rest of the text holds an opening quote without its
\* closing quote exactly when it holds an odd number of quote characters.
UnclosedQuoteAhead ==
    /\ lex_pc \in {"lex", "done"}
    /\ QuotingActive
    /\ Count(SubSeq(lexer.data, lexer.idx + 1, Len(lexer.data)),
             lexer.string_quote[1]) % 2 = 1

\* C9: with quoting active, a text with an opening quote that is never
\* closed ends in an error; lex does not finish and returns no tokens.
C9_UnclosedQuoteFails ==
    /\ UnclosedQuoteAhead => (lex_pc = "lex" /\ lexer.idx < Len(lexer.data))
    /\ (QuotingActive /\ Count(lexer.data, lexer.string_quote[1]) % 2 = 1) =>
          /\ lex_pc \in {"lex", "err"}
          /\ ~lex_result.ok

C9_Witness ==
    /\ lex_pc = "err"
    /\ lex_result = [ok |-> FALSE, err |-> "unexpected EOF"]
    /\ QuotingActive
    /\ Count(lexer.data, lexer.string_quote[1]) % 2 = 1

(***************************************************************************)
(* C10. Without a string_quote directive no character is a quote: the      *)
(* quote glyphs are ordinary token characters, tokens split at every       *)
(* whitespace and parenthesis, and lexing never fails for an unclosed      *)
(* quote.                                                                  *)
(***************************************************************************)
NoStringQuoteDirective == ~Contains(input, StringQuoteName)

\* C10: without a string_quote directive no quoted run is formed: the text
\* lexes as its words and parentheses, quote glyphs being word characters.
C10_NoDirectiveNoQuoting ==
    (lex_pc # "new" /\ NoStringQuoteDirective) =>
        /\ lex_pc # "err"
        /\ lexer.string_quote = None
        /\ lex_pc = "done" =>
              /\ Texts(lex_result.v) = Items(lexer.data)
              /\ \A i \in 1..Len(lex_result.v) :
                    lex_result.v[i].tok = KeywordTag(lex_result.v[i].s)

C10_Witness ==
    /\ lex_pc = "done"
    /\ NoStringQuoteDirective
    /\ input = <<Quote, "M", "m", " ", "(">>
    /\ lex_result.v = <<Token("Literal", <<Quote, "M", "m">>), Token("Lparen", <<"(">>)>>

(***************************************************************************)
(* Vocabulary of the parser properties, stated on the token sequence.      *)
(***************************************************************************)
\* Opening minus closing parentheses among the first k tokens.
DepthAfter(toks, k) ==
    Cardinality({i \in 1..k : toks[i].tok = "Lparen"})
      - Cardinality({i \in 1..k : toks[i].tok = "Rparen"})

\* Token i opens a direct child of the pcb form: the form "( pcb" is still
\* open and nothing else is.
DirectChildAt(toks, i) ==
    /\ i >= 4 /\ i < Len(toks)
    /\ toks[1].tok = "Lparen" /\ toks[2].tok = "Pcb"
    /\ toks[i].tok = "Lparen"
    /\ DepthAfter(toks, i - 1) = 1
    /\ \A k \in 1..(i - 1) : DepthAfter(toks, k) >= 1

\* The token that closes the parenthesis opened by token i, or 0.
CloseOf(toks, i) ==
    LET js == {j \in (i + 1)..Len(toks) :
                  DepthAfter(toks, j) = DepthAfter(toks, i - 1)}
    IN  IF js = {} THEN 0 ELSE CHOOSE j \in js : \A k \in js : j <= k

\* The well-parenthesized (parser ...) blocks that are direct children of
\* pcb, each as <<first token, last token>>.
ParserBlocks(toks) ==
    {<<i, CloseOf(toks, i)>> : i \in
        {i \in 1..Len(toks) : /\ DirectChildAt(toks, i)
                              /\ toks[i + 1].tok = "Parser"
                              /\ CloseOf(toks, i) # 0}}

\* toks with the tokens i..j taken out.
Without(toks, i, j) == SubSeq(toks, 1, i - 1) \o SubSeq(toks, j + 1, Len(toks))

(***************************************************************************)
(* C1. A (parser ...) block that is a direct child of pcb is ignored:      *)
(* whenever the token sequence without the block parses, the sequence      *)
(* with the block parses too and yields the same Document.                 *)
(***************************************************************************)
\* C1: for every well-parenthesized parser block of the parsed tokens, if
\* the tokens without the block parse to a Document, then this parse has
\* succeeded with that same Document.
C1_ParserBlockIgnored ==
    parse_pc \in {"done", "err"} =>
        \A blk \in ParserBlocks(parser.toks) :
            \E base \in {Parser_parse(Parser_new(
                            Without(parser.toks, blk[1], blk[2])))} :
                base.ok => (parse_result.ok /\ parse_result.v = base.v)

\* A parse has ended on tokens that hold a nested parser block.
C1_Reached ==
    /\ parse_pc = "done"
    /\ \E blk \in ParserBlocks(parser.toks) :
          /\ blk[2] - blk[1] >= 6
          /\ parser.toks[blk[1] + 2].tok = "Lparen"
          /\ parser.toks[blk[1] + 3].tok = "Lparen"

(***************************************************************************)
(* C11. The id of a Document that lex-then-parse returns is not empty.     *)
(***************************************************************************)
\* C11: whenever the parse of the lexed text has succeeded, the id of the
\* Document returned is a non-empty string.
C11_IdNonEmpty ==
    (parse_pc = "done" /\ parse_result.ok) => parse_result.v.pcb_id # <<>>

(***************************************************************************)
(* C12. A word of a (pins ...) list is split at its last hyphen; a word    *)
(* without a hyphen fails the parse.                                       *)
(***************************************************************************)
\* The pin reference that the word w stands for.
IsSplitOf(ref, w) ==
    /\ ref.component_id \o <<"-">> \o ref.pin_id = w
    /\ ~HasChar(ref.pin_id, "-")

\* C12: after the parse of a document whose only section is a net with the
\* pins ws: if every word has a hyphen the parse has succeeded and pin i is
\* word i cut at its last hyphen (the component id before, the pin id after,
\* no hyphen in the pin id); if some word has none the parse has failed.
C12_SplitAtLastHyphen ==
    parse_pc \in {"done", "err"} =>
        \A ws \in PinWordSeqs :
            parser.toks = RuleDoc(PinsSection(ws)) =>
                IF \A i \in 1..Len(ws) : HasChar(ws[i], "-")
                THEN /\ parse_result.ok
                     /\ Len(parse_result.v.network.nets) = 1
                     /\ Len(parse_result.v.network.nets[1].pins) = Len(ws)
                     /\ \A i \in 1..Len(ws) :
                           IsSplitOf(parse_result.v.network.nets[1].pins[i], ws[i])
                ELSE ~parse_result.ok

\* A parse has returned the pin R-A-1 with the component id R-A.
C12_Witness ==
    /\ parse_pc = "done"
    /\ parser.toks = RuleDoc(PinsSection(<<<<"R", "-", "A", "-", "1">>>>))
    /\ parse_result.v.network.nets[1].pins[1].component_id = <<"R", "-", "A">>
    /\ parse_result.v.network.nets[1].pins[1].pin_id = <<"1">>

\* A parse has failed on a pins list with a word that has no hyphen.
C12_WitnessNoHyphen ==
    /\ parse_pc = "err"
    /\ parser.toks = RuleDoc(PinsSection(<<<<"R", "1">>>>))

(***************************************************************************)
(* C13. Both halves of every pin reference of a parsed Document are        *)
(* non-empty.                                                              *)
(***************************************************************************)
\* C13: whenever a parse has succeeded, every pin reference of every net of
\* the Document has a non-empty component id and a non-empty pin id.
C13_PinRefHalvesNonEmpty ==
    (parse_pc = "done" /\ parse_result.ok) =>
        \A n \in 1..Len(parse_result.v.network.nets) :
            \A i \in 1..Len(parse_result.v.network.nets[n].pins) :
                /\ parse_result.v.network.nets[n].pins[i].component_id # <<>>
                /\ parse_result.v.network.nets[n].pins[i].pin_id # <<>>

(***************************************************************************)
(* C14. A polygon needs three points and a path two; with enough points    *)
(* the parse succeeds and keeps them in file order.                        *)
(***************************************************************************)
\* The least number of points of a polygon and of a path.
MinPoints(kind) == IF kind = "Polygon" THEN 3 ELSE 2

\* C14: after the parse of a document whose only section is a boundary with
\* a polygon or a path of the points ps: with fewer than three (polygon) or
\* two (path) points the parse has failed; otherwise it has succeeded and
\* the shape holds exactly the points ps in the order written.
C14_MinimumPoints ==
    parse_pc \in {"done", "err"} =>
        \A kind \in {"Polygon", "Path"}, ps \in ShapePointSeqs :
            parser.toks = RuleDoc(OutlineSection(kind, ps)) =>
                IF Len(ps) < MinPoints(kind)
                THEN ~parse_result.ok
                ELSE /\ parse_result.ok
                     /\ Len(parse_result.v.structure.boundaries) = 1
                     /\ parse_result.v.structure.boundaries[1].kind = kind
                     /\ parse_result.v.structure.boundaries[1].v.pts
                            = [i \in 1..Len(ps) |-> ps[i].v]

\* A polygon of exactly three different points has been parsed.
C14_Witness ==
    /\ parse_pc = "done"
    /\ \E ps \in ShapePointSeqs :
          /\ Len(ps) = 3
          /\ ps[1] # ps[2] /\ ps[2] # ps[3] /\ ps[1] # ps[3]
          /\ parser.toks = RuleDoc(OutlineSection("Polygon", ps))
          /\ parse_result.v.structure.boundaries[1].v.pts[3] = ps[3].v

\* A parse has failed on a path of one point.
C14_WitnessShortPath ==
    /\ parse_pc = "err"
    /\ \E ps \in ShapePointSeqs :
          Len(ps) = 1 /\ parser.toks = RuleDoc(OutlineSection("Path", ps))

(***************************************************************************)
(* C15. (rect L a b) and (rect L b a) give the same rectangle, the least   *)
(* axis-aligned rectangle that holds a and b.                              *)
(***************************************************************************)
\* rt holds the points a and b and each of its sides passes through one of
\* them.
IsLeastEnclosing(rt, a, b) ==
    /\ NumLe(rt.l, a.x) /\ NumLe(rt.l, b.x) /\ rt.l \in {a.x, b.x}
    /\ NumLe(a.x, rt.r) /\ NumLe(b.x, rt.r) /\ rt.r \in {a.x, b.x}
    /\ NumLe(rt.b, a.y) /\ NumLe(rt.b, b.y) /\ rt.b \in {a.y, b.y}
    /\ NumLe(a.y, rt.t) /\ NumLe(b.y, rt.t) /\ rt.t \in {a.y, b.y}

C16_NothingPartial ==
    /\ lex_pc = "err" =>
          /\ ~lex_result.ok
          /\ DOMAIN lex_result = {"ok", "err"}
          /\ parse_pc = "idle"
          /\ parse_result = NoResult
    /\ parse_pc = "err" =>
          /\ ~parse_result.ok
          /\ DOMAIN parse_result = {"ok", "err"}

\* The parser has failed after it had parsed a library with an image.
C16_Witness ==
    /\ parse_pc = "err"
    /\ parser.pcb.library.images # <<>>
    /\ DOMAIN parse_result = {"ok", "err"}

\* The lexer has failed after it had made tokens.
C16_WitnessLexer ==
    /\ lex_pc = "err"
    /\ lexer.tokens # <<>>

(***************************************************************************)
(* C17. A parenthesized child with no rule in the loop it stands in fails  *)
(* the parse.                                                              *)
(***************************************************************************)
\* C17: after the parse of a document in which one of the sixteen loops
\* holds a parenthesized child whose head has no rule there, alone or after
\* a skipped parser or property block, the parse has failed.
C17_UnruledChildFails ==
    parse_pc \in {"done", "err"} =>
        \A sec \in UnruledSections :
            parser.toks = RuleDoc(sec) => ~parse_result.ok

(***************************************************************************)
(* C18. Enumeration positions accept their own tags and nothing else.      *)
(***************************************************************************)
\* The tags of the enumeration read at a position.
Accepted(pos) ==
    CASE pos = "side" -> {"Back", "Both", "Front"}
      [] pos = "lock_type" -> {"Gate", "Position"}
      [] pos = "layer_type" -> {"Jumper", "Mixed", "Power", "Signal"}
      [] pos = "keepout_type" -> {"Keepout", "ViaKeepout", "WireKeepout"}
      [] pos = "clearance_type" -> {"DefaultSmd", "SmdSmd"}
      [] pos = "onoff" -> {"Off", "On"}
      [] pos \in {"unit", "resolution"} -> {"Inch", "Mil", "Cm", "Mm", "Um"}

\* The tag a Document of EnumSection(pos, w) holds for the position.
EnumValue(pos, doc) ==
    CASE pos = "side" -> doc.placement.components[1].refs[1].side
      [] pos = "lock_type" -> doc.placement.components[1].refs[1].lock_type
      [] pos = "layer_type" -> doc.structure.layers[1].layer_type
      [] pos = "keepout_type" -> doc.structure.keepouts[1].keepout_type
      [] pos = "clearance_type" -> doc.structure.rules[1].v.types[1]
      [] pos = "onoff" ->
            IF doc.library.padstacks[1].attach THEN "On" ELSE "Off"
      [] pos = "unit" -> doc.unit.dimension
      [] pos = "resolution" -> doc.resolution.dimension

\* C18: a parse with the word w at an enumeration position succeeds exactly
\* when w is a tag of that position's enumeration, and the Document then
\* holds that tag; with any other token, a tag of another enumeration
\* included, the parse fails.
C18_ClosedEnumerations ==
    parse_pc \in {"done", "err"} =>
        \A pos \in EnumPositions, w \in EnumWords :
            parser.toks = RuleDoc(EnumSection(pos, w)) =>
                /\ parse_result.ok <=> Lexed(w).tok \in Accepted(pos)
                /\ parse_result.ok =>
                       EnumValue(pos, parse_result.v) = Lexed(w).tok

\* A parse has failed on a side position holding a tag of the lock type.
C18_Witness ==
    /\ parse_pc = "err"
    /\ parser.toks = RuleDoc(EnumSection("side", Spelling("Gate")))

\* A parse has succeeded on a lock type position holding one of its tags.
C18_WitnessAccepted ==
    /\ parse_pc = "done"
    /\ parse_result.ok
    /\ parser.toks = RuleDoc(EnumSection("lock_type", Spelling("Gate")))
    /\ parse_result.v.placement.components[1].refs[1].lock_type = "Gate"

(***************************************************************************)
(* C19. A document of an id and empty sections parses to the id and        *)
(* defaults.                                                               *)
(***************************************************************************)
\* C19: after the lexing and the parse of "(pcb id)" or of "(pcb id" followed
\* by up to MaxDocSections of (library), (network), (placement), (wiring)
\* and ")", the parse has succeeded with a Document that holds the id and
\* in every section its default.
C19_EmptyDocument ==
    parse_pc \in {"done", "err"} =>
        \A id \in PlainIds, ss \in EmptySectionSeqs :
            input = Doc(id, Concat(ss), <<RP>>) =>
                /\ parse_result.ok
                /\ parse_result.v = [DsnPcb_default EXCEPT !.pcb_id = id]

\* The parse of "(pcb x (library) (wiring))" has ended.
C19_Witness ==
    /\ parse_pc = "done"
    /\ input = Doc(<<"x">>,
                   Group(<<Spelling("Library")>>) \o Group(<<Spelling("Wiring")>>),
                   <<RP>>)
    /\ parse_result.ok
    /\ parse_result.v.pcb_id = <<"x">>

\* The parse of "(pcb x)" has ended.
C19_WitnessNoSections ==
    /\ parse_pc = "done"
    /\ input = Doc(<<"x">>, <<>>, <<RP>>)
    /\ parse_result.ok

(***************************************************************************)
(* C20. Parser::ignore ends one past the parenthesis that closes the       *)
(* group it was called on.                                                 *)
(***************************************************************************)
\* C20: for every ( of the parsed tokens that has a matching ),
\* Parser::ignore called with the cursor on that ( succeeds, leaves the
\* cursor one past the matching ) and leaves the Document as it was.
C20_IgnoreEndsPastClose ==
    \A i \in 1..Len(parser.toks) :
        (parser.toks[i].tok = "Lparen" /\ CloseOf(parser.toks, i) # 0) =>
            \E r \in {ignore([parser EXCEPT !.idx = i - 1])} :
                /\ r.ok
                /\ r.p.idx = CloseOf(parser.toks, i)
                /\ r.p.pcb = parser.pcb

(***************************************************************************)
(* C21. A loop enters a construct only from an opening parenthesis.        *)
(***************************************************************************)
\* C21: after the parse of a document in which a loop other than that of
\* class stands before a word that is no parenthesis, followed by a head
\* that has an arm in that loop, the parse has failed.
C21_DispatchNeedsParen ==
    parse_pc \in {"done", "err"} =>
        \A loop \in Loops \ {"class"}, w \in StrayWords :
            \A head \in Arms(loop), tail \in {<<>>, <<RP>>} :
                parser.toks = RuleDoc(StraySection(loop, w, head, tail)) =>
                    ~parse_result.ok

(***************************************************************************)
(* C22. A stub construct yields one placeholder, with or without a body.   *)
(***************************************************************************)
\* The Document with one placeholder in the list of the stub and defaults
\* everywhere else.
WithPlaceholder(stub) ==
    CASE stub = <<"wiring", "Wire">> ->
            [DsnPcb_default EXCEPT !.pcb_id = <<"x">>,
                                   !.wiring.wires = <<DsnWire_default>>]
      [] stub = <<"wiring", "Via">> ->
            [DsnPcb_default EXCEPT !.pcb_id = <<"x">>,
                                   !.wiring.vias = <<DsnVia_default>>]
      [] stub = <<"structure", "Plane">> ->
            [DsnPcb_default EXCEPT !.pcb_id = <<"x">>,
                                   !.structure.planes = <<DsnPlane_default>>]

\* C22: after the parse of a document whose only section holds one wire,
\* via or plane, empty or with a well-parenthesized body, the parse has
\* succeeded and the list of the section holds exactly one placeholder.
C22_StubTolerated ==
    parse_pc \in {"done", "err"} =>
        \A stub \in Stubs, body \in StubBodies :
            parser.toks = RuleDoc(StubSection(stub, body)) =>
                /\ parse_result.ok
                /\ parse_result.v = WithPlaceholder(stub)

\* The part of C22 about the empty form alone.
C22_EmptyStubTolerated ==
    parse_pc \in {"done", "err"} =>
        \A stub \in Stubs :
            parser.toks = RuleDoc(StubSection(stub, <<>>)) =>
                /\ parse_result.ok
                /\ parse_result.v = WithPlaceholder(stub)

(***************************************************************************)
(* C23. The types of a clearance rule: those given, or all.                *)
(***************************************************************************)
\* C23: after the parse of a document with one clearance rule, the parse has
\* succeeded and the types of the rule are <<All>> when the rule has no
\* (type ...) child, and otherwise the types of its children in their
\* order, All not among them.
C23_ClearanceTypes ==
    parse_pc \in {"done", "err"} =>
        \A types \in ClearanceTypeSeqs :
            parser.toks = RuleDoc(ClearanceSection(types)) =>
                /\ parse_result.ok
                /\ Len(parse_result.v.structure.rules) = 1
                /\ parse_result.v.structure.rules[1].kind = "Clearance"
                /\ parse_result.v.structure.rules[1].v.types =
                       (IF types = <<>> THEN <<"All">> ELSE types)

\* The parse of a clearance rule with two different types has ended.
C23_Witness ==
    /\ parse_pc = "done"
    /\ parse_result.ok
    /\ parser.toks = RuleDoc(ClearanceSection(<<"SmdSmd", "DefaultSmd">>))
    /\ parse_result.v.structure.rules[1].v.types = <<"SmdSmd", "DefaultSmd">>

\* The parse of a clearance rule with no type has ended.
C23_WitnessNoType ==
    /\ parse_pc = "done"
    /\ parse_result.ok
    /\ parser.toks = RuleDoc(ClearanceSection(<<>>))
    /\ parse_result.v.structure.rules[1].v.types = <<"All">>

(***************************************************************************)
(* C24. The lists of the Document hold their entries in the order of the   *)
(* tokens.                                                                 *)
(***************************************************************************)
\* The names of the entries of the list named, as the Document holds them.
ListOf(field, doc) ==
    CASE field = "images" ->
            [i \in 1..Len(doc.library.images) |-> doc.library.images[i].image_id]
      [] field = "padstacks" ->
            [i \in 1..Len(doc.library.padstacks) |->
                doc.library.padstacks[i].padstack_id]
      [] field = "image_pins" ->
            [i \in 1..Len(doc.library.images[1].pins) |->
                doc.library.images[1].pins[i].pin_id]
      [] field = "nets" ->
            [i \in 1..Len(doc.network.nets) |-> doc.network.nets[i].net_id]
      [] field = "classes" ->
            [i \in 1..Len(doc.network.classes) |-> doc.network.classes[i].class_id]
      [] field = "net_ids" -> doc.network.classes[1].net_ids
      [] field = "net_pins" ->
            [i \in 1..Len(doc.network.nets[1].pins) |->
                doc.network.nets[1].pins[i].component_id]
      [] field = "components" ->
            [i \in 1..Len(doc.placement.components) |->
                doc.placement.components[i].image_id]
      [] field = "refs" ->
            [i \in 1..Len(doc.placement.components[1].refs) |->
                doc.placement.components[1].refs[i].component_id]
      [] field = "layers" ->
            [i \in 1..Len(doc.structure.layers) |-> doc.structure.layers[i].layer_name]
      [] field = "boundaries" ->
            [i \in 1..Len(doc.structure.boundaries) |->
                doc.structure.boundaries[i].v.layer_id]
      [] field = "keepouts" ->
            [i \in 1..Len(doc.structure.keepouts) |->
                CHOOSE k \in ListItems :
                    ItemKeepout(k) = doc.structure.keepouts[i].keepout_type]
      [] field = "vias" -> doc.structure.vias
      [] field = "rules" ->
            [i \in 1..Len(doc.structure.rules) |->
                CHOOSE k \in ListItems :
                    doc.structure.rules[i] =
                        [kind |-> "Width",
                         v |-> Normalise(IF k = <<"a">> THEN 1 ELSE 2, 0)]]

\* C24: after the parse of a document whose section holds the forms or
\* tokens of the entries items of one list, each rule in a (rule ...) form of
\* its own, the parse has succeeded and the list holds one entry per item,
\* in the order of the tokens.
C24_ListsInTokenOrder ==
    parse_pc \in {"done", "err"} =>
        \A field \in ListFields, items \in ListItemSeqs :
            parser.toks = RuleDoc(ListSection(field, items)) =>
                /\ parse_result.ok
                /\ ListOf(field, parse_result.v) = items

\* The parse of (structure (via b a)) has ended.
C24_Witness ==
    /\ parse_pc = "done"
    /\ parse_result.ok
    /\ parser.toks = RuleDoc(ListSection("vias", <<<<"b">>, <<"a">>>>))
    /\ parse_result.v.structure.vias = <<<<"b">>, <<"a">>>>

\* The parse of (structure (rule (width 1)) (rule (width 2))) has ended.
C24_WitnessRules ==
    /\ parse_pc = "done"
    /\ parse_result.ok
    /\ parser.toks = RuleDoc(ListSection("rules", <<<<"a">>, <<"b">>>>))
    /\ Len(parse_result.v.structure.rules) = 2

(***************************************************************************)
(* C25. The amount of a resolution is an integer of 32 bits, stored as     *)
(* written.                                                                *)
(***************************************************************************)
\* ds without its leading zeros.
RECURSIVE Stripped(_)
Stripped(ds) ==
    IF ds # <<>> /\ Head(ds) = "0" THEN Stripped(Tail(ds)) ELSE ds

\* a <= b for two strings of digits of the same length.
DigitsLe(a, b) ==
    \/ a = b
    \/ \E i \in 1..Len(a) :
          /\ \A j \in 1..(i - 1) : a[j] = b[j]
          /\ DigitVal[a[i]] < DigitVal[b[i]]

\* The digits of 2^31 - 1 and of 2^31.
MaxDigits(neg) ==
    IF neg THEN <<"2", "1", "4", "7", "4", "8", "3", "6", "4", "8">>
    ELSE <<"2", "1", "4", "7", "4", "8", "3", "6", "4", "7">>

\* w is an optional sign and one or more decimal digits.
IsIntegerLiteral(w) ==
    /\ w # <<>>
    /\ \E ds \in {IF w[1] \in {"+", "-"} THEN Tail(w) ELSE w} :
          ds # <<>> /\ \A i \in 1..Len(ds) : ds[i] \in DOMAIN DigitVal

\* The integer literal w denotes a number of [-2^31, 2^31 - 1].
InI32Range(w) ==
    \E neg \in {w[1] = "-"} :
    \E ds \in {Stripped(IF w[1] \in {"+", "-"} THEN Tail(w) ELSE w)} :
        \/ Len(ds) < Len(MaxDigits(neg))
        \/ Len(ds) = Len(MaxDigits(neg)) /\ DigitsLe(ds, MaxDigits(neg))

\* The number the integer literal w of that range denotes.
IntegerOf(w) ==
    LET ds == Stripped(IF w[1] \in {"+", "-"} THEN Tail(w) ELSE w)
    IN  IF w[1] # "-" THEN DigitsValue(ds)
        ELSE IF ds = MaxDigits(TRUE) THEN I32Min
        ELSE 0 - DigitsValue(ds)

\* C25: after the parse of a document with (resolution mm w), the parse has
\* succeeded exactly when w is an integer literal of [-2^31, 2^31 - 1], and
\* the amount of the Document is then the number w denotes.
C25_AmountIsExactI32 ==
    parse_pc \in {"done", "err"} =>
        \A w \in AmountWords :
            parser.toks = RuleDoc(ResolutionSection(w)) =>
                /\ parse_result.ok <=> (IsIntegerLiteral(w) /\ InI32Range(w))
                /\ parse_result.ok =>
                       parse_result.v.resolution.amount = IntegerOf(w)

\* A parse has failed on the amount 2^31.
C25_Witness ==
    /\ parse_pc = "err"
    /\ parser.toks = RuleDoc(ResolutionSection(MaxDigits(TRUE)))

\* A parse has stored the amount -2^31.
C25_WitnessLeast ==
    /\ parse_pc = "done"
    /\ parse_result.ok
    /\ parser.toks = RuleDoc(ResolutionSection(<<"-">> \o MaxDigits(TRUE)))
    /\ parse_result.v.resolution.amount = I32Min

\* A parse has failed on the amount 1.5.
C25_WitnessPoint ==
    /\ parse_pc = "err"
    /\ parser.toks = RuleDoc(ResolutionSection(<<"1", ".", "5">>))

(***************************************************************************)
(* C26. Tokens after the parenthesis that closes the pcb form change       *)
(* nothing.                                                                *)
(***************************************************************************)
\* C26: after the parse of "( pcb x <section> )" followed by further tokens,
\* the outcome is that of the parse of "( pcb x <section> )" alone: both
\* have failed, or both have succeeded with the same Document.
C26_TrailingTokensUnseen ==
    parse_pc \in {"done", "err"} =>
        \A base \in TrailBases, t \in Trailers :
            parser.toks = TrailDoc(base, t) =>
                \E alone \in {Parser_parse(Parser_new(RuleDoc(base)))} :
                    /\ parse_result.ok <=> alone.ok
                    /\ parse_result.ok => parse_result.v = alone.v

\* The part of C26 about documents that parse when they stand alone.
C26_TrailingKeepsDocument ==
    parse_pc \in {"done", "err"} =>
        \A base \in TrailBases, t \in Trailers :
            parser.toks = TrailDoc(base, t) =>
                \E alone \in {Parser_parse(Parser_new(RuleDoc(base)))} :
                    alone.ok => parse_result.ok /\ parse_result.v = alone.v

(***************************************************************************)
(* C27. Of two sections of one keyword the Document holds the last.        *)
(***************************************************************************)
\* C27: after the parse of a document with two sections of one keyword, the
\* parse has succeeded with the Document of the second section alone.
C27_LastSectionWins ==
    parse_pc \in {"done", "err"} =>
        \A head \in SectionHeads \ {"Parser"} :
            \A k1 \in ContentsOf(head), k2 \in ContentsOf(head) :
                parser.toks = RuleDoc(RepeatedSection(head, k1, k2)) =>
                    /\ parse_result.ok
                    /\ parse_result.v =
                         Parser_parse(Parser_new(RuleDoc(SectionWith(head, k2)))).v

\* The parse of (library (image a)) (library (image b)) has ended with the
\* image b alone.
C27_Witness ==
    /\ parse_pc = "done"
    /\ parse_result.ok
    /\ parser.toks = RuleDoc(RepeatedSection("Library", <<"a">>, <<"b">>))
    /\ Len(parse_result.v.library.images) = 1
    /\ parse_result.v.library.images[1].image_id = <<"b">>

\* The parse of (structure (layer a)) (structure) has ended with no layer.
C27_WitnessEmptied ==
    /\ parse_pc = "done"
    /\ parse_result.ok
    /\ parser.toks = RuleDoc(RepeatedSection("Structure", <<"a">>, <<>>))
    /\ parse_result.v.structure = DsnStructure_default

(***************************************************************************)
(* C28. An identifier is the text of the next token, whatever its tag.     *)
(***************************************************************************)
\* What the Document of IdDoc(pos, w) holds at the position: the identifier
\* or, for the via names, the list of them.
IdValue(pos, doc) ==
    CASE pos = "pcb_id" -> doc.pcb_id
      [] pos = "layer_name" -> doc.structure.layers[1].layer_name
      [] pos = "image_id" -> doc.library.images[1].image_id
      [] pos = "padstack_id" -> doc.library.padstacks[1].padstack_id
      [] pos = "net_id" -> doc.network.nets[1].net_id
      [] pos = "class_id" -> doc.network.classes[1].class_id
      [] pos = "vias" -> doc.structure.vias
      [] pos = "part_number" -> doc.placement.components[1].refs[1].part_number

\* C28 as stated: after the parse of a document with the word w at an
\* identifier position, whatever the tag of w, the parse has succeeded and
\* the Document holds w as the identifier.
C28_AnyTokenIsIdentifier ==
    parse_pc \in {"done", "err"} =>
        \A pos \in IdPositions, w \in IdWords :
            parser.toks = IdDoc(pos, w) =>
                /\ parse_result.ok
                /\ IdValue(pos, parse_result.v) =
                       (IF pos = "vias" THEN <<w>> ELSE w)

\* C28: after the parse of a document with the word w at an identifier
\* position, whatever the tag of w, the parse has succeeded and the Document
\* holds w as the identifier; except that a ")" where a via name may stand
\* ends the list of via names and is no name.
C28_AnyTokenButListEnd ==
    parse_pc \in {"done", "err"} =>
        \A pos \in IdPositions, w \in IdWords :
            parser.toks = IdDoc(pos, w) =>
                /\ parse_result.ok
                /\ IdValue(pos, parse_result.v) =
                       (IF pos # "vias" THEN w
                        ELSE IF w = RP THEN <<>> ELSE <<w>>)

\* The parse of "( pcb ) )" has ended with the id ")".
C28_Witness ==
    /\ parse_pc = "done"
    /\ parse_result.ok
    /\ parser.toks = IdDoc("pcb_id", RP)
    /\ parse_result.v.pcb_id = RP

\* The parse of "(structure (via ( ))" has ended with the via name "(".
C28_WitnessVia ==
    /\ parse_pc = "done"
    /\ parse_result.ok
    /\ parser.toks = IdDoc("vias", LP)
    /\ parse_result.v.structure.vias = <<LP>>

(***************************************************************************)
(* C29. Lexer::lex and Parser::parse terminate; the cursors only advance.  *)
(***************************************************************************)
\* r, returned by a rule called with the cursor at i, has the cursor within
\* the tokens and not before i, and past i when the rule succeeded.
Advances(i, r) ==
    /\ r.p.idx >= i
    /\ r.p.idx <= Len(r.p.toks)
    /\ r.ok => r.p.idx > i

\* Every rule and the skip, called with the cursor at i.
RulesAdvance(p, i) ==
    /\ Advances(i, Parser_next(p))
    /\ Advances(i, literal(p))
    /\ Advances(i, expect(p, "Lparen"))
    /\ Advances(i, ignore(p))
    /\ Advances(i, number(p)) /\ Advances(i, integer(p))
    /\ Advances(i, vertex(p)) /\ Advances(i, dimension(p))
    /\ Advances(i, unit(p)) /\ Advances(i, pin_ref(p))
    /\ Advances(i, onoff(p)) /\ Advances(i, side(p))
    /\ Advances(i, rect(p)) /\ Advances(i, circle(p))
    /\ Advances(i, polygon(p)) /\ Advances(i, path(p))
    /\ Advances(i, qarc(p)) /\ Advances(i, shape(p))
    /\ Advances(i, via(p)) /\ Advances(i, wire(p)) /\ Advances(i, plane(p))
    /\ Advances(i, keepout(p)) /\ Advances(i, pin(p))
    /\ Advances(i, padstack_shape(p)) /\ Advances(i, padstack(p))
    /\ Advances(i, image(p)) /\ Advances(i, clearance(p))
    /\ Advances(i, rule(p)) /\ Advances(i, circuit(p))
    /\ Advances(i, class(p)) /\ Advances(i, net(p))
    /\ Advances(i, placement_ref(p)) /\ Advances(i, component(p))
    /\ Advances(i, layer(p)) /\ Advances(i, library(p))
    /\ Advances(i, network(p)) /\ Advances(i, placement(p))
    /\ Advances(i, resolution(p)) /\ Advances(i, structure(p))
    /\ Advances(i, wiring(p)) /\ Advances(i, pcb(p))

\* When a parse starts: every rule, called at any position of the tokens,
\* advances the cursor or returns an error.  Token sequences with a word
\* as long as the digits of 2^31 - 1, which the numbers of the model hold
\* as an integer only, are read by the rules of the parse itself only.
EveryRuleAdvances ==
    (parse_pc = "pcb" /\ \A k \in 1..Len(parser.toks) :
                             Len(parser.toks[k].s) < Len(MaxDigits(FALSE))) =>
        \A i \in 0..Len(parser.toks) :
            RulesAdvance([parser EXCEPT !.idx = i], i)

\* A step leaves both cursors within their buffers and not before where
\* they were; an iteration of the while of Lexer::lex, the head of
\* Parser::pcb and an iteration of its while that return no error, and the
\* exit of that while, move their cursor forward.
CursorStep ==
    /\ lexer'.idx >= lexer.idx
    /\ lexer'.idx <= Len(lexer'.data)
    /\ parser'.idx >= parser.idx
    /\ parser'.idx <= Len(parser'.toks)
    /\ (lex_pc = "lex" /\ lex_pc' = "lex") => lexer'.idx > lexer.idx
    /\ (parse_pc \in {"pcb", "while"} /\ parse_pc' \in {"while", "done"})
           => parser'.idx > parser.idx

\* Lexer::new or Lexer::lex has returned an error, or Parser::parse has
\* returned.
Finished == lex_pc = "err" \/ parse_pc \in {"done", "err"}

\* C29: on every input, each rule and the skip advance the cursor or return
\* an error, each step leaves the cursors within their buffers and never
\* moves them back, each loop iteration that goes on moves its cursor
\* forward, and the run ends.
C29_Terminates ==
    /\ []EveryRuleAdvances
    /\ [][CursorStep]_vars
    /\ <>Finished

\* A text with a quoted run has been lexed and parsed to the end of its
\* tokens.
C29_Witness ==
    /\ lex_pc = "done"
    /\ parse_pc = "done"
    /\ \E i \in 1..Len(input) : input[i] = "\""
    /\ lexer.idx = Len(lexer.data)
    /\ parser.idx = Len(parser.toks)
    /\ Len(parser.toks) > 0

\* A parse has ended after a skipped block.
C29_WitnessSkip ==
    /\ parse_pc = "done"
    /\ \E body \in SkippedBodies :
          parser.toks = RuleDoc(SkipThen("pcb", body, <<>>))


(***************************************************************************)
(* C30: where the returned tokens come from.  Lexer::lex pushes tokens in  *)
(* three places: push_literal behind a quoted run, push_token around a     *)
(* separator of the unquoted branch, and push_token at the loop exit.      *)
(***************************************************************************)
\* The tokens the step pushes.
Produced ==
    SubSeq(lexer'.tokens, Len(lexer.tokens) + 1, Len(lexer'.tokens))

\* The step is an iteration of the while of Lexer::lex.
Iterating == lex_pc = "lex" /\ lexer.idx < Len(lexer.data)

\* The iteration consumes the opening quote of a quoted run.
OpensRun == Iterating /\ QuotingActive /\ Some(lexer.data[lexer.idx + 1]) = lexer.string_quote

\* The iteration consumes the character c outside of a quoted run.
UnquotedChar(c) == Iterating /\ ~OpensRun /\ lexer.data[lexer.idx + 1] = c

\* The quoted run the iteration opens is empty and nothing was accumulated
\* in front of it.
EmptyRun ==
    /\ OpensRun
    /\ lexer.token = <<>>
    /\ lexer.idx + 2 <= Len(lexer.data)
    /\ Some(lexer.data[lexer.idx + 2]) = lexer.string_quote

ParenTags == {ParenTag(c) : c \in Paren}

WordText(s) ==
    /\ s # <<>>
    /\ \A k \in 1..Len(s) : s[k] \notin WhiteSpace \cup Paren

TokenOrigin ==
    /\ Len(lexer'.tokens) >= Len(lexer.tokens)
    /\ SubSeq(lexer'.tokens, 1, Len(lexer.tokens)) = lexer.tokens
    /\ lex_pc' = "done" => lex_result'.v = lexer'.tokens
    /\ \A c \in Paren :
          /\ (\E k \in 1..Len(Produced) : Produced[k].tok = ParenTag(c))
                <=> UnquotedChar(c)
          /\ \A k \in 1..Len(Produced) :
                Produced[k].tok = ParenTag(c) => Produced[k].s = <<c>>
    /\ ~OpensRun =>
          \A k \in 1..Len(Produced) :
              Produced[k].tok \notin ParenTags => WordText(Produced[k].s)
    /\ \A k \in 1..Len(Produced) : Produced[k].s = <<>> => EmptyRun

\* C30: the tokens the lexer returns are the tokens its steps push, in order;
\* a step pushes a token tagged Lparen (Rparen) exactly when it consumes an
\* unquoted "(" (")"), with that character as the text; every other token
\* pushed outside of a quoted run has a non-empty text without whitespace and
\* without parenthesis; a token with empty text is pushed only by an empty
\* quoted run.
C30_TokenOrigins == [][TokenOrigin]_vars

\* An empty quoted run next to an unquoted parenthesis.
C30_Witness ==
    /\ lex_pc = "done"
    /\ QuotingActive
    /\ Texts(lex_result.v) = << <<>>, <<"(">> >>
    /\ lex_result.v[1].tok = "Literal"
    /\ lex_result.v[2].tok = "Lparen"

\* A quoted closing parenthesis: one token, tagged Literal.
C30_WitnessQuotedParen ==
    /\ lex_pc = "done"
    /\ QuotingActive
    /\ lex_result.v = <<Token("Literal", <<")">>)>>
====
